---- MODULE Spec2Model ----
(***************************************************************************)
(* QCNS: the circuit grid of QuantumCircuit (placement, snapshot) and the  *)
(* state-vector evolution of QuantumSimulator.                             *)
(*                                                                         *)
(* Numbers.  The simulator works on 64-bit floats.  Every amplitude that   *)
(* the gate library can produce from the angles used here lies in the ring *)
(* Z[1/2, sqrt 2, i], so a real number is kept exactly as                  *)
(* (p + q*sqrt 2) / 2^k and float rounding is not represented: "equal"     *)
(* below stands for "equal up to rounding" in the program.                 *)
(* Angles are counted in units of pi/4; theta is always an even count, so  *)
(* theta/2 is again a whole count.                                         *)
(***************************************************************************)
EXTENDS Integers, Sequences, FiniteSets, TLC

(***************************************************************************)
(* Bounds of the model.                                                    *)
(***************************************************************************)
\* qubits of a circuit that is run (SpecBasis, SpecGHZ, SpecGates, SpecJson)
MaxQubits == 3
\* calls of a client program (SpecBasis, SpecPlace, SpecAppend, SpecNames)
MaxCalls == 3
\* highest explicit column passed to addGate
MaxCol == 2
\* gates of a client program of SpecGates and SpecJson
MaxGates == 2
\* qubits of a circuit in SpecPlace, SpecAppend, SpecNames
PlaceQubits == 2
\* results of run() a client keeps side by side
MaxRuns == 2
\* calls a client makes on one QuantumNetwork
MaxNetCalls == 4
\* nodes a client adds before network.toCircuit()
MaxNodes == 2

(***************************************************************************)
(* Exact reals (p + q*sqrt 2) / 2^k, normalised so that equal numbers are  *)
(* equal records.                                                          *)
(***************************************************************************)
\* F(v) with v computed once, before F uses it
Strict(F(_), v) == CHOOSE r \in {F(u) : u \in {v}} : TRUE

RECURSIVE Pow2(_)
Pow2(e) == IF e <= 0 THEN 1 ELSE 2 * Pow2(e - 1)

RECURSIVE RNorm(_)
RNorm(r) ==
    IF r.k > 0 /\ r.p % 2 = 0 /\ r.q % 2 = 0
    THEN RNorm([p |-> r.p \div 2, q |-> r.q \div 2, k |-> r.k - 1])
    ELSE r

R(pp, qq, kk) == RNorm([p |-> pp, q |-> qq, k |-> kk])
RInt(v) == [p |-> v, q |-> 0, k |-> 0]
RZero == RInt(0)
ROne == RInt(1)

RAdd(a, b) ==
    LET kk == IF a.k >= b.k THEN a.k ELSE b.k
    IN  R(a.p * Pow2(kk - a.k) + b.p * Pow2(kk - b.k),
          a.q * Pow2(kk - a.k) + b.q * Pow2(kk - b.k), kk)

RNeg(a) == [p |-> 0 - a.p, q |-> 0 - a.q, k |-> a.k]
RSub(a, b) == RAdd(a, RNeg(b))
RMul(a, b) == R(a.p * b.p + 2 * a.q * b.q, a.p * b.q + a.q * b.p, a.k + b.k)

\* sign of p + q*sqrt 2 (the denominator is positive): -1, 0 or 1
RSign(a) ==
    IF a.p = 0 /\ a.q = 0 THEN 0
    ELSE IF a.p >= 0 /\ a.q >= 0 THEN 1
    ELSE IF a.p <= 0 /\ a.q <= 0 THEN 0 - 1
    ELSE IF a.p > 0 THEN (IF a.p * a.p > 2 * a.q * a.q THEN 1 ELSE 0 - 1)
    ELSE (IF 2 * a.q * a.q > a.p * a.p THEN 1 ELSE 0 - 1)

RLess(a, b) == RSign(RSub(a, b)) < 0

\* Math.cos / Math.sin of kq*pi/4
cosQ(kq) ==
    LET m == kq % 8
    IN  CASE m = 0 -> ROne
          [] m = 1 -> R(0, 1, 1)
          [] m = 2 -> RZero
          [] m = 3 -> R(0, 0 - 1, 1)
          [] m = 4 -> RInt(0 - 1)
          [] m = 5 -> R(0, 0 - 1, 1)
          [] m = 6 -> RZero
          [] OTHER -> R(0, 1, 1)

sinQ(kq) == cosQ(kq + 6)

(***************************************************************************)
(* ComplexMath                                                             *)
(***************************************************************************)
complex(re, im) == [re |-> re, im |-> im]

add(a, b) == [re |-> RAdd(a.re, b.re), im |-> RAdd(a.im, b.im)]

multiply(a, b) ==
    [re |-> RSub(RMul(a.re, b.re), RMul(a.im, b.im)),
     im |-> RAdd(RMul(a.re, b.im), RMul(a.im, b.re))]

\* exp(theta) = cos theta + i sin theta, theta = kq*pi/4
exp(kq) == [re |-> cosQ(kq), im |-> sinQ(kq)]

\* abs(z) * abs(z): Math.sqrt(re^2 + im^2) squared
absSquared(z) == RAdd(RMul(z.re, z.re), RMul(z.im, z.im))

CZero == complex(RZero, RZero)
COne == complex(ROne, RZero)

\* the function f as an explicit table of its values (@@ builds the table)
Table(f) == f @@ << >>

(***************************************************************************)
(* QuantumGates: the gate library.  A matrix entry is a literal number or  *)
(* a symbolic expression string.                                           *)
(***************************************************************************)
Num(v) == [str |-> FALSE, num |-> v, expr |-> ""]
Sym(e) == [str |-> TRUE, num |-> 0, expr |-> e]

N0 == Num(0)
N1 == Num(1)

\* rows i of the n x n identity, 1-based
IdRow(i, n) == [j \in 1..n |-> IF i = j THEN N1 ELSE N0]

\* 4 x 4 matrix "controlled-U": identity on the first two basis indices
Controlled(u) ==
    << IdRow(1, 4), IdRow(2, 4),
       <<N0, N0, u[1][1], u[1][2]>>,
       <<N0, N0, u[2][1], u[2][2]>> >>

\* 8 x 8 permutation matrix exchanging the basis indices a and b (0-based)
Exchange8(a, b) ==
    [i \in 1..8 |->
        IF i = a + 1 THEN IdRow(b + 1, 8)
        ELSE IF i = b + 1 THEN IdRow(a + 1, 8)
        ELSE IdRow(i, 8)]

MatX == << <<N0, N1>>, <<N1, N0>> >>
MatY == << <<N0, Sym("-i")>>, <<Sym("i"), N0>> >>
MatZ == << <<N1, N0>>, <<N0, Num(0 - 1)>> >>
MatH == << <<Sym("1/sqrt(2)"), Sym("1/sqrt(2)")>>,
           <<Sym("1/sqrt(2)"), Sym("-1/sqrt(2)")>> >>
MatRX == << <<Sym("cos(theta/2)"), Sym("-i*sin(theta/2)")>>,
            <<Sym("-i*sin(theta/2)"), Sym("cos(theta/2)")>> >>
MatRY == << <<Sym("cos(theta/2)"), Sym("-sin(theta/2)")>>,
            <<Sym("sin(theta/2)"), Sym("cos(theta/2)")>> >>
MatRZ == << <<Sym("e^(-i*theta/2)"), N0>>, <<N0, Sym("e^(i*theta/2)")>> >>
MatU3 == << <<Sym("cos(theta/2)"), Sym("-e^(i*lambda)*sin(theta/2)")>>,
            <<Sym("e^(i*phi)*sin(theta/2)"), Sym("e^(i*(phi+lambda))*cos(theta/2)")>> >>
Diag(e) == << <<N1, N0>>, <<N0, e>> >>

\* the names getBasicGates defines
GateNames ==
    {"id", "x", "y", "z", "h", "s", "t", "sdg", "tdg", "rx", "ry", "rz",
     "u1", "u2", "u3", "cx", "cy", "cz", "ch", "swap", "iswap", "ccx",
     "cswap", "sx", "p", "phase", "cp", "crx", "cry", "crz", "cu",
     "measure", "barrier"}

\* gates[name].matrix; measure and barrier define none
getBasicGates(name) ==
    CASE name = "id" -> Diag(N1)
      [] name = "x" -> MatX
      [] name = "y" -> MatY
      [] name = "z" -> MatZ
      [] name = "h" -> MatH
      [] name = "s" -> Diag(Sym("i"))
      [] name = "t" -> Diag(Sym("e^(i * pi / 4)"))
      [] name = "sdg" -> Diag(Sym("-i"))
      [] name = "tdg" -> Diag(Sym("e^(-i * pi / 4)"))
      [] name = "rx" -> MatRX
      [] name = "ry" -> MatRY
      [] name = "rz" -> MatRZ
      [] name = "u1" -> Diag(Sym("e^(i*lambda)"))
      [] name = "u2" -> << <<Sym("1/sqrt(2)"), Sym("-e^(i*lambda)/sqrt(2)")>>,
                           <<Sym("e^(i*phi)/sqrt(2)"), Sym("e^(i*(phi+lambda))/sqrt(2)")>> >>
      [] name = "u3" -> MatU3
      [] name = "cx" -> Controlled(MatX)
      [] name = "cy" -> Controlled(MatY)
      [] name = "cz" -> Controlled(MatZ)
      [] name = "ch" -> Controlled(MatH)
      [] name = "swap" -> << IdRow(1, 4), IdRow(3, 4), IdRow(2, 4), IdRow(4, 4) >>
      [] name = "iswap" -> << IdRow(1, 4), <<N0, N0, Sym("i"), N0>>,
                              <<N0, Sym("i"), N0, N0>>, IdRow(4, 4) >>
      [] name = "ccx" -> Exchange8(6, 7)
      [] name = "cswap" -> Exchange8(5, 6)
      [] name = "sx" -> << <<Sym("(1+i)/2"), Sym("(1-i)/2")>>,
                           <<Sym("(1-i)/2"), Sym("(1+i)/2")>> >>
      [] name = "p" -> Diag(Sym("e^(i*lambda)"))
      [] name = "phase" -> Diag(Sym("e^(i*lambda)"))
      [] name = "cp" -> Controlled(Diag(Sym("e^(i*lambda)")))
      [] name = "crx" -> Controlled(MatRX)
      [] name = "cry" -> Controlled(MatRY)
      [] name = "crz" -> Controlled(MatRZ)
      [] name = "cu" -> Controlled(MatU3)
      [] OTHER -> << >>

\* QuantumGates.getGate throws "Unknown gate" for a name outside the table
hasGate(name) == name \in GateNames

(***************************************************************************)
(* QuantumSimulator: gate matrices                                         *)
(***************************************************************************)
\* params.theta || 0 and params.lambda || 0 are the counts themselves: an
\* absent parameter is kept as 0.
evaluateMatrixElement(expr, params) ==
    CASE expr = "i" -> complex(RZero, ROne)
      [] expr = "-i" -> complex(RZero, RInt(0 - 1))
      [] expr = "1/sqrt(2)" -> complex(R(0, 1, 1), RZero)
      [] expr = "-1/sqrt(2)" -> complex(R(0, 0 - 1, 1), RZero)
      [] expr = "cos(theta/2)" -> complex(cosQ(params.theta \div 2), RZero)
      [] expr = "sin(theta/2)" -> complex(sinQ(params.theta \div 2), RZero)
      [] expr = "-sin(theta/2)" -> complex(RNeg(sinQ(params.theta \div 2)), RZero)
      [] expr = "-i*sin(theta/2)" -> complex(RZero, RNeg(sinQ(params.theta \div 2)))
      [] expr = "e^(-i*theta/2)" -> exp(0 - (params.theta \div 2))
      [] expr = "e^(i*theta/2)" -> exp(params.theta \div 2)
      [] expr = "e^(i*lambda)" -> exp(params.lambda)
      [] expr = "e^(i * pi / 4)" -> exp(1)
      [] expr = "e^(-i * pi / 4)" -> exp(0 - 1)
      [] expr = "e^(i * pi / 2)" -> exp(2)
      [] expr = "e^(-i * pi / 2)" -> exp(0 - 2)
      [] OTHER -> complex(ROne, RZero)

parseGateMatrix(matrix, params) ==
    Table([i \in DOMAIN matrix |->
        Table([j \in DOMAIN matrix[i] |->
            IF matrix[i][j].str
            THEN evaluateMatrixElement(matrix[i][j].expr, params)
            ELSE complex(RInt(matrix[i][j].num), RZero)])])

getGateMatrix(gate) == parseGateMatrix(getBasicGates(gate.name), gate.options)

(***************************************************************************)
(* The circuit grid.  gates[wire] is the row of a wire (wires 0..n-1); the *)
(* cell of column c is gates[wire][c + 1].  A cell is null or a gate       *)
(* object {name, id, options}.  "ref" is the identity of the JavaScript    *)
(* object: the cells addGate writes for one gate hold one object, so they  *)
(* carry one ref.  "id" is the string randomString() returns, modelled as  *)
(* a fresh number.                                                         *)
(***************************************************************************)
NoOptions == [theta |-> 0, lambda |-> 0, creg |-> << >>]
Null == [name |-> "null", id |-> 0, ref |-> 0, options |-> NoOptions]
IsGate(cell) == cell.id # 0

Wires(n) == 0..(n - 1)

numCols(circuit) == Len(circuit.gates[0])

\* circuit.gates[wire][col] as JavaScript reads it: a missing row or a
\* missing cell is falsy, like null
CellAt(circuit, wire, col) ==
    IF wire \in Wires(circuit.numQubits) /\ col >= 0
       /\ col < Len(circuit.gates[wire])
    THEN circuit.gates[wire][col + 1]
    ELSE Null

RECURSIVE SortSet(_)
SortSet(S) ==
    IF S = {} THEN << >>
    ELSE LET m == CHOOSE v \in S : \A u \in S : v <= u
         IN  <<m>> \o SortSet(S \ {m})

Bit(st, qb) == (st \div Pow2(qb)) % 2
Flip(st, qb) == IF Bit(st, qb) = 0 THEN st + Pow2(qb) ELSE st - Pow2(qb)

(***************************************************************************)
(* QuantumSimulator: evolution                                             *)
(***************************************************************************)
\* wires holding a cell that is the very object `gate` (===), ascending
findGateWires(circuit, gate) ==
    SortSet({wire \in Wires(circuit.numQubits) :
                \E col \in 0..(numCols(circuit) - 1) :
                    /\ IsGate(CellAt(circuit, wire, col))
                    /\ CellAt(circuit, wire, col).ref = gate.ref})

\* the gates of a column in wire order, one per gate id
RECURSIVE GatesFromWire(_, _, _, _)
GatesFromWire(circuit, column, wire, seen) ==
    IF wire >= circuit.numQubits THEN << >>
    ELSE LET cell == CellAt(circuit, wire, column)
         IN  IF IsGate(cell) /\ cell.id \notin seen
             THEN <<cell>> \o GatesFromWire(circuit, column, wire + 1, seen \cup {cell.id})
             ELSE GatesFromWire(circuit, column, wire + 1, seen)

\* getGatesAtColumn without processedGates (a gate once per wire it is on):
\* the fault C25_EveryRecordAppliedOnce detects
getGatesAtColumnPerWire(circuit, column) ==
    SelectSeq([k \in 1..circuit.numQubits |-> CellAt(circuit, k - 1, column)], IsGate)

getGatesAtColumn(circuit, column) == GatesFromWire(circuit, column, 0, {})

applySingleQubitGate(stateVector, gateMatrix, targetQubit) ==
    Table([st \in DOMAIN stateVector |->
        LET targetBit == Bit(st, targetQubit)
            currentAmplitude == stateVector[st]
            flippedAmplitude == stateVector[Flip(st, targetQubit)]
        IN  add(multiply(gateMatrix[1][targetBit + 1],
                         IF targetBit = 0 THEN currentAmplitude ELSE flippedAmplitude),
                multiply(gateMatrix[2][targetBit + 1],
                         IF targetBit = 0 THEN flippedAmplitude ELSE currentAmplitude))])

\* st with the bits of qubit1 and qubit2 replaced by b1 and b2
WithBits(st, qubit1, b1, qubit2, b2) ==
    st - Bit(st, qubit1) * Pow2(qubit1) - Bit(st, qubit2) * Pow2(qubit2)
       + b1 * Pow2(qubit1) + b2 * Pow2(qubit2)

\* applyTwoQubitGate with the two bits of the basis index exchanged
\* (basisIndex = (bit2 << 1) | bit1): the fault C3_GHZProbabilities detects
applyTwoQubitGateBitsExchanged(stateVector, gateMatrix, qubit1, qubit2) ==
    Table([ns \in DOMAIN stateVector |->
        LET newBasisIndex == 2 * Bit(ns, qubit2) + Bit(ns, qubit1)
            term(b1, b2) ==
                multiply(gateMatrix[newBasisIndex + 1][2 * b2 + b1 + 1],
                         stateVector[WithBits(ns, qubit1, b1, qubit2, b2)])
        IN  add(add(add(add(CZero, term(0, 0)), term(0, 1)), term(1, 0)), term(1, 1))])

\* The loop adds gateMatrix[newBasisIndex][basisIndex] * stateVector[state]
\* into newStateVector[newState]; collected per newState, these are the four
\* states that agree with it outside qubit1 and qubit2.
applyTwoQubitGate(stateVector, gateMatrix, qubit1, qubit2) ==
    Table([ns \in DOMAIN stateVector |->
        LET newBasisIndex == 2 * Bit(ns, qubit1) + Bit(ns, qubit2)
            term(b1, b2) ==
                multiply(gateMatrix[newBasisIndex + 1][2 * b1 + b2 + 1],
                         stateVector[WithBits(ns, qubit1, b1, qubit2, b2)])
        IN  add(add(add(add(CZero, term(0, 0)), term(0, 1)), term(1, 0)), term(1, 1))])

\* the loop of applyThreeQubitGate from `st` on: every state with both
\* control bits set exchanges the two entries of newStateVector
RECURSIVE ThreeQubitLoop(_, _, _, _, _)
ThreeQubitLoop(newStateVector, st, control1, control2, target) ==
    IF st \notin DOMAIN newStateVector THEN newStateVector
    ELSE LET flippedState == Flip(st, target)
             swapped == [newStateVector EXCEPT
                            ![st] = newStateVector[flippedState],
                            ![flippedState] = newStateVector[st]]
         IN  Strict(LAMBDA next : ThreeQubitLoop(next, st + 1, control1, control2, target),
                    IF Bit(st, control1) = 1 /\ Bit(st, control2) = 1
                    THEN swapped ELSE newStateVector)

applyThreeQubitGate(stateVector, gateMatrix, qubits) ==
    ThreeQubitLoop(stateVector, 0, qubits[1], qubits[2], qubits[3])

\* An evolution step yields [error, stateVector]; error is "none" or the
\* kind of exception that ends run().
Ok(stateVector) == [error |-> "none", stateVector |-> stateVector]
Thrown(kind) == [error |-> kind, stateVector |-> << >>]

ApplyOnWires(stateVector, gateMatrix, gateWires) ==
    IF Len(gateWires) = 1
    THEN Ok(applySingleQubitGate(stateVector, gateMatrix, gateWires[1]))
    ELSE IF Len(gateWires) = 2
    THEN IF Len(gateMatrix) < 4 THEN Thrown("TypeError")
         ELSE Ok(applyTwoQubitGate(stateVector, gateMatrix, gateWires[1], gateWires[2]))
    ELSE IF Len(gateWires) = 3
    THEN Ok(applyThreeQubitGate(stateVector, gateMatrix, gateWires))
    ELSE Thrown("UnsupportedGate")

\* getGateMatrix throws for a name outside the library before any dispatch
applyGate(stateVector, gate, circuit) ==
    IF ~hasGate(gate.name) THEN Thrown("UnknownGate")
    ELSE Strict(LAMBDA gateWires :
                    Strict(LAMBDA gateMatrix :
                               ApplyOnWires(stateVector, gateMatrix, gateWires),
                           getGateMatrix(gate)),
                findGateWires(circuit, gate))

RECURSIVE ApplyColumnGates(_, _, _, _)
ApplyColumnGates(step, columnGates, k, circuit) ==
    IF k > Len(columnGates) \/ step.error # "none" THEN step
    ELSE LET gate == columnGates[k]
         IN  Strict(LAMBDA next : ApplyColumnGates(next, columnGates, k + 1, circuit),
                    IF gate.name # "measure" /\ gate.name # "barrier"
                    THEN applyGate(step.stateVector, gate, circuit)
                    ELSE step)

RECURSIVE EvolveFrom(_, _, _)
EvolveFrom(step, col, circuit) ==
    IF col >= numCols(circuit) \/ step.error # "none" THEN step
    ELSE Strict(LAMBDA next : EvolveFrom(next, col + 1, circuit),
                Strict(LAMBDA columnGates : ApplyColumnGates(step, columnGates, 1, circuit),
                       getGatesAtColumn(circuit, col)))

\* the calls of applyGate that simulate makes, in order: the gate and the
\* column it was found in
RECURSIVE appliedGates(_, _)
appliedGates(circuit, col) ==
    IF col >= numCols(circuit) THEN << >>
    ELSE LET columnGates == getGatesAtColumn(circuit, col)
             applied == SelectSeq(columnGates,
                            LAMBDA gate : gate.name # "measure" /\ gate.name # "barrier")
         IN  [k \in 1..Len(applied) |-> [gate |-> applied[k], col |-> col]]
                 \o appliedGates(circuit, col + 1)

InitialStateVector(n) ==
    Table([st \in 0..(Pow2(n) - 1) |-> IF st = 0 THEN COne ELSE CZero])

calculateProbabilities(stateVector) ==
    Table([st \in DOMAIN stateVector |-> absSquared(stateVector[st])])

\* the sum of stateProbabilities[st] over the states lo..hi whose bit
\* qubitIndex is qubitValue (the loop adds them one by one; the sum is exact
\* here, so it is taken by halves)
RECURSIVE SumWhere(_, _, _, _, _)
SumWhere(stateProbabilities, lo, hi, qubitIndex, qubitValue) ==
    IF lo > hi THEN RZero
    ELSE IF lo = hi
    THEN (IF Bit(lo, qubitIndex) = qubitValue THEN stateProbabilities[lo] ELSE RZero)
    ELSE LET mid == (lo + hi) \div 2
         IN  RAdd(SumWhere(stateProbabilities, lo, mid, qubitIndex, qubitValue),
                  SumWhere(stateProbabilities, mid + 1, hi, qubitIndex, qubitValue))

\* calculateQubitProbabilities with the two sums returned in exchanged
\* places, [P(1), P(0)]
calculateQubitProbabilitiesExchanged(stateProbabilities, qubitIndex) ==
    <<SumWhere(stateProbabilities, 0, Cardinality(DOMAIN stateProbabilities) - 1,
               qubitIndex, 1),
      SumWhere(stateProbabilities, 0, Cardinality(DOMAIN stateProbabilities) - 1,
               qubitIndex, 0)>>

\* [P(0), P(1)] of one qubit, as <<prob0, prob1>>
calculateQubitProbabilities(stateProbabilities, qubitIndex) ==
    << SumWhere(stateProbabilities, 0, Cardinality(DOMAIN stateProbabilities) - 1, qubitIndex, 0),
       SumWhere(stateProbabilities, 0, Cardinality(DOMAIN stateProbabilities) - 1, qubitIndex, 1) >>

\* Math.random() < prob1 ? 1 : 0 with Math.random() in [0, 1)
Draws(prob1) ==
    IF ~RLess(RZero, prob1) THEN {0}
    ELSE IF ~RLess(prob1, ROne) THEN {1}
    ELSE {0, 1}

\* the key under which a measure cell on `wire` reports
MeasureLabel(cell, wire) ==
    IF cell.options.creg # << >> THEN <<"creg", cell.options.creg[1]>>
    ELSE <<"qubit", wire>>

MeasureCells(circuit) ==
    {pos \in (0..(numCols(circuit) - 1)) \X Wires(circuit.numQubits) :
        /\ IsGate(CellAt(circuit, pos[2], pos[1]))
        /\ CellAt(circuit, pos[2], pos[1]).name = "measure"}

\* The loop visits the cells column by column, wire by wire, and a later
\* cell overwrites the entry of an earlier one with the same label: each
\* label keeps the draw of its last cell.  All results the draws allow.
handleMeasurements(circuit, probabilities) ==
    LET cells == MeasureCells(circuit)
        label(pos) == MeasureLabel(CellAt(circuit, pos[2], pos[1]), pos[2])
        labels == {label(pos) : pos \in cells}
        later(a, b) == a[1] > b[1] \/ (a[1] = b[1] /\ a[2] >= b[2])
        lastCell(lb) == CHOOSE pos \in cells :
                            /\ label(pos) = lb
                            /\ \A other \in cells : label(other) = lb => later(pos, other)
    IN  {m \in [labels -> {0, 1}] :
            \A lb \in labels :
                m[lb] \in Draws(calculateQubitProbabilities(probabilities, lastCell(lb)[2])[2])}

\* simulate(circuit) without the sampled measurements
SimulationOf(final) ==
    IF final.error # "none"
    THEN [error |-> final.error, stateVector |-> << >>, probabilities |-> << >>]
    ELSE [error |-> "none", stateVector |-> final.stateVector,
          probabilities |-> calculateProbabilities(final.stateVector)]

simulate(circuit) ==
    Strict(LAMBDA final : SimulationOf(final),
           Strict(LAMBDA initial : EvolveFrom(Ok(initial), 0, circuit),
                  InitialStateVector(circuit.numQubits)))

(***************************************************************************)
(* QuantumSimulator: the unitary matrix of a circuit.  A matrix is a       *)
(* function of the row index 0..2^n-1 giving the row, a function of the    *)
(* column index.                                                           *)
(***************************************************************************)
createIdentityMatrix(size) ==
    Table([i \in 0..(size - 1) |->
        Table([j \in 0..(size - 1) |-> IF i = j THEN COne ELSE CZero])])

\* i & ~(1 << qubit)
ClearBit(st, qubit) == st - Bit(st, qubit) * Pow2(qubit)

buildSingleQubitFullMatrix(gateMatrix, targetQubit, qubits) ==
    Table([i \in 0..(Pow2(qubits) - 1) |->
        Table([j \in 0..(Pow2(qubits) - 1) |->
            IF ClearBit(i, targetQubit) = ClearBit(j, targetQubit)
            THEN gateMatrix[Bit(i, targetQubit) + 1][Bit(j, targetQubit) + 1]
            ELSE CZero])])

buildTwoQubitFullMatrix(gateMatrix, qubit1, qubit2, qubits) ==
    Table([i \in 0..(Pow2(qubits) - 1) |->
        Table([j \in 0..(Pow2(qubits) - 1) |->
            IF ClearBit(ClearBit(i, qubit1), qubit2) = ClearBit(ClearBit(j, qubit1), qubit2)
            THEN gateMatrix[2 * Bit(i, qubit1) + Bit(i, qubit2) + 1]
                           [2 * Bit(j, qubit1) + Bit(j, qubit2) + 1]
            ELSE CZero])])

\* three wires and more: the identity
buildFullGateMatrix(gate, circuit) ==
    LET gateWires == findGateWires(circuit, gate)
        gateMatrix == getGateMatrix(gate)
    IN  IF Len(gateWires) = 1
        THEN buildSingleQubitFullMatrix(gateMatrix, gateWires[1], circuit.numQubits)
        ELSE IF Len(gateWires) = 2
        THEN buildTwoQubitFullMatrix(gateMatrix, gateWires[1], gateWires[2],
                                     circuit.numQubits)
        ELSE createIdentityMatrix(Pow2(circuit.numQubits))

\* result[i][j] from complex(0, 0), adding matrixA[i][k] * matrixB[k][j]
\* for k = from, from + 1, ...
RECURSIVE DotFrom(_, _, _, _, _, _)
DotFrom(sum, matrixA, matrixB, i, j, from) ==
    IF from >= Cardinality(DOMAIN matrixA) THEN sum
    ELSE Strict(LAMBDA next : DotFrom(next, matrixA, matrixB, i, j, from + 1),
                add(sum, multiply(matrixA[i][from], matrixB[from][j])))

multiplyMatrices(matrixA, matrixB) ==
    Table([i \in DOMAIN matrixA |->
        Table([j \in DOMAIN matrixA |-> DotFrom(CZero, matrixA, matrixB, i, j, 0)])])

RECURSIVE UnitaryColumnGates(_, _, _, _)
UnitaryColumnGates(unitaryMatrix, columnGates, k, circuit) ==
    IF k > Len(columnGates) THEN unitaryMatrix
    ELSE LET gate == columnGates[k]
         IN  Strict(LAMBDA next : UnitaryColumnGates(next, columnGates, k + 1, circuit),
                    IF gate.name # "measure" /\ gate.name # "barrier"
                    THEN multiplyMatrices(buildFullGateMatrix(gate, circuit), unitaryMatrix)
                    ELSE unitaryMatrix)

RECURSIVE UnitaryFrom(_, _, _)
UnitaryFrom(unitaryMatrix, col, circuit) ==
    IF col >= numCols(circuit) THEN unitaryMatrix
    ELSE Strict(LAMBDA next : UnitaryFrom(next, col + 1, circuit),
                UnitaryColumnGates(unitaryMatrix, getGatesAtColumn(circuit, col), 1,
                                   circuit))

calculateUnitaryMatrix(circuit) ==
    UnitaryFrom(createIdentityMatrix(Pow2(circuit.numQubits)), 0, circuit)

\* The text of the OpenQASM transpiler, an external collaborator: one
\* statement per gate in column-then-wire order, computed from the circuit
\* without changing it.
RECURSIVE QasmFrom(_, _)
QasmFrom(circuit, col) ==
    IF col >= numCols(circuit) THEN << >>
    ELSE [k \in 1..Len(getGatesAtColumn(circuit, col)) |->
             <<getGatesAtColumn(circuit, col)[k].name,
               findGateWires(circuit, getGatesAtColumn(circuit, col)[k])>>]
         \o QasmFrom(circuit, col + 1)

qasm(circuit) == QasmFrom(circuit, 0)

(***************************************************************************)
(* Storage.  Every array and every complex number object has an address,   *)
(* a number like the identity ("ref") of a gate object; an allocation      *)
(* takes the next fresh identities.                                        *)
(***************************************************************************)
\* an allocation that hands out the addresses of the previous one again
AllocateInPlace(free, count) ==
    [objects |-> (free - count)..(free - 1), free |-> free]

Allocate(free, count) ==
    [objects |-> free..(free + count - 1), free |-> free + count]

\* the objects of one result of simulate and calculateUnitaryMatrix: the
\* stateVector array and its 2^n amplitudes, the probabilities array (of
\* numbers), the unitaryMatrix array, its 2^n rows and their 4^n entries
ResultObjects(qubits) ==
    3 + 2 * Pow2(qubits) + Pow2(qubits) * Pow2(qubits)

(***************************************************************************)
(* State.  One QuantumCircuit c, the result of its last run(), and at most *)
(* one circuit d made by QuantumCircuit.fromJSON from a snapshot of c.     *)
(***************************************************************************)
VARIABLES
    numQubits,   \* c.numQubits (the size of qreg)
    numClbits,   \* c.numClbits; 0 when c.creg is null
    gates,       \* c.gates
    state,       \* c.state: "zero" for {"0": 1}, "empty" for {}
    nextId,      \* the next fresh identity (gate id, object address)
    calls,       \* the placement calls made on c so far, with their outcome
    pre,         \* gates and state of c before the last placement call
    last,        \* the kind of the last operation
    result,      \* what the last run() returned or threw
    snapshot,    \* how d was made: "none", "direct" or "text"
    dgates,      \* d.gates when d owns its grid (snapshot = "text")
    held,        \* the complete results of run() the client has kept
    network,     \* one QuantumNetwork: nodes, entanglements, nextNodeId
    netCalls     \* the calls made on the network so far, with their outcome

vars == <<numQubits, numClbits, gates, state, nextId, calls, pre, last, result,
          snapshot, dgates, held, network, netCalls>>

circuitC == [numQubits |-> numQubits, numClbits |-> numClbits, gates |-> gates]

\* fromJSON sets circuit.gates = json.gates: with the snapshot object passed
\* directly, d.gates is the array c.gates itself
circuitD == [numQubits |-> numQubits, numClbits |-> numClbits,
      gates |-> IF snapshot = "direct" THEN gates ELSE dgates]

EmptyGrid(n) == [wire \in Wires(n) |-> << >>]

NoResult == [of |-> "none", error |-> "none", stateVector |-> << >>,
             probabilities |-> << >>, measurements |-> << >>]

\* new QuantumNetwork(): the Maps nodes and entanglements are kept as
\* sequences in insertion order
NewNetwork == [nodes |-> << >>, entanglements |-> << >>, nextNodeId |-> 0]

\* new QuantumCircuit(qubits, clbits): empty rows, initState()
constructor(qubits, clbits) ==
    /\ numQubits = qubits
    /\ numClbits = clbits
    /\ gates = EmptyGrid(qubits)
    /\ state = "zero"
    /\ nextId = 1
    /\ calls = << >>
    /\ pre = [gates |-> EmptyGrid(qubits), state |-> "zero"]
    /\ last = "new"
    /\ result = NoResult
    /\ snapshot = "none"
    /\ dgates = EmptyGrid(qubits)
    /\ held = << >>
    /\ network = NewNetwork
    /\ netCalls = << >>

(***************************************************************************)
(* QuantumCircuit: placement                                               *)
(***************************************************************************)
\* the while loop of lastNonEmptyPlace without its second scan (the one
\* over every wire): the fault C9_AppendAfterGlobalFrontier detects
RECURSIVE LastNonEmptyLoopOwnWires(_, _, _, _)
LastNonEmptyLoopOwnWires(circuit, wires, col, allEmpty) ==
    IF ~(col >= 1 /\ allEmpty) THEN col
    ELSE LET cc == col - 1
         IN  IF \E k \in 1..Len(wires) : IsGate(CellAt(circuit, wires[k], cc))
             THEN LastNonEmptyLoopOwnWires(circuit, wires, cc, FALSE)
             ELSE LastNonEmptyLoopOwnWires(circuit, wires, cc, TRUE)

\* the while loop of lastNonEmptyPlace from (col, allEmpty) on
RECURSIVE LastNonEmptyLoop(_, _, _, _)
LastNonEmptyLoop(circuit, wires, col, allEmpty) ==
    IF ~(col >= 1 /\ allEmpty) THEN col
    ELSE LET cc == col - 1
         IN  IF \E k \in 1..Len(wires) : IsGate(CellAt(circuit, wires[k], cc))
             THEN LastNonEmptyLoop(circuit, wires, cc, FALSE)
             ELSE IF \E wire \in Wires(circuit.numQubits) : IsGate(CellAt(circuit, wire, cc))
             THEN LastNonEmptyLoop(circuit, wires, cc + 1, FALSE)
             ELSE LastNonEmptyLoop(circuit, wires, cc, TRUE)

\* lastNonEmptyPlace looking at the wires of the new gate only: the fault
\* C28_NodeGatesFollowThePreamble detects
lastNonEmptyPlaceOwnWires(circuit, wires) ==
    LastNonEmptyLoopOwnWires(circuit, wires, numCols(circuit), TRUE)

lastNonEmptyPlace(circuit, wires) ==
    LastNonEmptyLoop(circuit, wires, numCols(circuit), TRUE)

\* while (this.gates[wire].length <= targetColumn) push(null), on every wire
PadTo(grid, targetColumn) ==
    [wire \in DOMAIN grid |->
        grid[wire] \o [k \in 1..(targetColumn + 1 - Len(grid[wire])) |-> Null]]

\* for (wire of wireList) this.gates[wire][targetColumn] = gate, from the
\* k-th wire on; a wire without a row throws a TypeError and ends the loop
RECURSIVE WriteFrom(_, _, _, _, _)
WriteFrom(grid, wireList, k, targetColumn, gate) ==
    IF k > Len(wireList) THEN [gates |-> grid, threw |-> FALSE]
    ELSE IF wireList[k] \notin DOMAIN grid THEN [gates |-> grid, threw |-> TRUE]
    ELSE WriteFrom([grid EXCEPT ![wireList[k]][targetColumn + 1] = gate],
                   wireList, k + 1, targetColumn, gate)

\* addGate(gateName, column, wires, options) on `circuit` with the fresh id
\* gateId: the grid it leaves, whether it threw, and the column it used
addGate(circuit, gateName, column, wireList, options, gateId) ==
    LET targetColumn == IF column < 0
                        THEN lastNonEmptyPlace(circuit, wireList) + 1
                        ELSE column
        gate == [name |-> gateName, id |-> gateId, ref |-> gateId, options |-> options]
        written == WriteFrom(PadTo(circuit.gates, targetColumn), wireList, 1,
                             targetColumn, gate)
    IN  [gates |-> written.gates, threw |-> written.threw, column |-> targetColumn]

\* resetState(), reached only when addGate did not throw
resetState(threw, old) == IF threw THEN old ELSE "empty"

Call(op, gateName, column, wireList, options, threw, targetColumn) ==
    [op |-> op, name |-> gateName, column |-> column, wires |-> wireList,
     options |-> options, threw |-> threw, target |-> targetColumn]

\* one call of a method that places through addGate
Place(op, gateName, column, wireList, options) ==
    LET out == addGate(circuitC, gateName, column, wireList, options, nextId)
    IN  /\ gates' = out.gates
        /\ state' = resetState(out.threw, state)
        /\ nextId' = nextId + 1
        /\ calls' = Append(calls, Call(op, gateName, column, wireList, options,
                                       out.threw, out.column))
        /\ pre' = [gates |-> gates, state |-> state]
        /\ last' = "place"
        /\ UNCHANGED <<numQubits, numClbits, result, snapshot, dgates,
                       held, network, netCalls>>

Theta(th) == [theta |-> th, lambda |-> 0, creg |-> << >>]
Lambda(la) == [theta |-> 0, lambda |-> la, creg |-> << >>]

h(qubit) == Place("h", "h", 0 - 1, <<qubit>>, NoOptions)
x(qubit) == Place("x", "x", 0 - 1, <<qubit>>, NoOptions)
y(qubit) == Place("y", "y", 0 - 1, <<qubit>>, NoOptions)
z(qubit) == Place("z", "z", 0 - 1, <<qubit>>, NoOptions)
s(qubit) == Place("s", "s", 0 - 1, <<qubit>>, NoOptions)
t(qubit) == Place("t", "t", 0 - 1, <<qubit>>, NoOptions)
sdg(qubit) == Place("sdg", "sdg", 0 - 1, <<qubit>>, NoOptions)
tdg(qubit) == Place("tdg", "tdg", 0 - 1, <<qubit>>, NoOptions)
sx(qubit) == Place("sx", "sx", 0 - 1, <<qubit>>, NoOptions)
rx(theta, qubit) == Place("rx", "rx", 0 - 1, <<qubit>>, Theta(theta))
ry(theta, qubit) == Place("ry", "ry", 0 - 1, <<qubit>>, Theta(theta))
rz(theta, qubit) == Place("rz", "rz", 0 - 1, <<qubit>>, Theta(theta))
p(lambda, qubit) == Place("p", "p", 0 - 1, <<qubit>>, Lambda(lambda))
phase(lambda, qubit) == Place("phase", "phase", 0 - 1, <<qubit>>, Lambda(lambda))
cx(control, target) == Place("cx", "cx", 0 - 1, <<control, target>>, NoOptions)
cy(control, target) == Place("cy", "cy", 0 - 1, <<control, target>>, NoOptions)
cz(control, target) == Place("cz", "cz", 0 - 1, <<control, target>>, NoOptions)
ch(control, target) == Place("ch", "ch", 0 - 1, <<control, target>>, NoOptions)
swap(qubit1, qubit2) == Place("swap", "swap", 0 - 1, <<qubit1, qubit2>>, NoOptions)
cp(lambda, control, target) ==
    Place("cp", "cp", 0 - 1, <<control, target>>, Lambda(lambda))
crx(theta, control, target) ==
    Place("crx", "crx", 0 - 1, <<control, target>>, Theta(theta))
cry(theta, control, target) ==
    Place("cry", "cry", 0 - 1, <<control, target>>, Theta(theta))
crz(theta, control, target) ==
    Place("crz", "crz", 0 - 1, <<control, target>>, Theta(theta))
\* phi and gamma are stored in the options and read by no matrix entry the
\* simulator evaluates; they are not kept
cu(theta, lambda, control, target) ==
    Place("cu", "cu", 0 - 1, <<control, target>>,
          [theta |-> theta, lambda |-> lambda, creg |-> << >>])
ccx(control1, control2, target) ==
    Place("ccx", "ccx", 0 - 1, <<control1, control2, target>>, NoOptions)
cswap(control, target1, target2) ==
    Place("cswap", "cswap", 0 - 1, <<control, target1, target2>>, NoOptions)

\* barrier(qubits): `qubits || all wires`; an empty array is truthy
AllWires == [k \in 1..numQubits |-> k - 1]
barrier(useAll, qubits) ==
    Place("barrier", "barrier", 0 - 1, IF useAll THEN AllWires ELSE qubits, NoOptions)

\* the low-level call itself
addGateCall(gateName, column, wireList) ==
    Place("addGate", gateName, column, wireList, NoOptions)

\* measure(qubit, cbit): throws before placing when there is no classical
\* register or cbit >= numClbits
measure(qubit, cbit) ==
    IF numClbits = 0 \/ cbit >= numClbits
    THEN /\ calls' = Append(calls, Call("measure", "measure", 0 - 1, <<qubit>>,
                                        [theta |-> 0, lambda |-> 0, creg |-> <<cbit>>],
                                        TRUE, 0 - 1))
         /\ pre' = [gates |-> gates, state |-> state]
         /\ last' = "place"
         /\ UNCHANGED <<numQubits, numClbits, gates, state, nextId, result,
                        snapshot, dgates, held, network, netCalls>>
    ELSE Place("measure", "measure", 0 - 1, <<qubit>>,
               [theta |-> 0, lambda |-> 0, creg |-> <<cbit>>])

\* measure_all(): measure(i, i) for every qubit, from qubit k on
RECURSIVE MeasureFrom(_, _, _)
MeasureFrom(grid, k, gateId) ==
    IF k >= numQubits THEN grid
    ELSE Strict(LAMBDA next : MeasureFrom(next, k + 1, gateId + 1),
                addGate([numQubits |-> numQubits, numClbits |-> numClbits, gates |-> grid],
                        "measure", 0 - 1, <<k>>,
                        [theta |-> 0, lambda |-> 0, creg |-> <<k>>], gateId).gates)

measure_all ==
    LET threw == numClbits = 0 \/ numClbits < numQubits
    IN  /\ gates' = IF threw THEN gates ELSE MeasureFrom(gates, 0, nextId)
        /\ state' = resetState(threw, state)
        /\ nextId' = IF threw THEN nextId ELSE nextId + numQubits
        /\ calls' = Append(calls, Call("measure_all", "measure", 0 - 1, AllWires,
                                       NoOptions, threw, 0 - 1))
        /\ pre' = [gates |-> gates, state |-> state]
        /\ last' = "place"
        /\ UNCHANGED <<numQubits, numClbits, result, snapshot, dgates,
                       held, network, netCalls>>

(***************************************************************************)
(* QuantumCircuit: run and snapshots                                       *)
(***************************************************************************)
\* run() of `circuit`: simulate, with every result the measurement draws
\* allow.  The unitaryMatrix and qasm entries of the result are not kept.
RunOf(circuit, tag) ==
    /\ \E sim \in {simulate(circuit)} :
           \E m \in IF sim.error = "none"
                    THEN handleMeasurements(circuit, sim.probabilities)
                    ELSE {<< >>} :
               result' = [of |-> tag, error |-> sim.error,
                          stateVector |-> sim.stateVector,
                          probabilities |-> sim.probabilities,
                          measurements |-> m]
    /\ last' = "run"
    /\ UNCHANGED <<numQubits, numClbits, gates, state, nextId, calls, pre,
                   snapshot, dgates, held, network, netCalls>>

run == RunOf(circuitC, "c")
runRestored == snapshot # "none" /\ RunOf(circuitD, "d")

\* r = c.run() with the client keeping r: stateVector, probabilities,
\* measurements, unitaryMatrix and qasm, in objects allocated by this call.
\* A run() that throws returns nothing to keep.
runKept ==
    /\ Len(held) < MaxRuns
    /\ \E sim \in {simulate(circuitC)} :
           \E m \in IF sim.error = "none"
                    THEN handleMeasurements(circuitC, sim.probabilities)
                    ELSE {<< >>} :
               /\ result' = [of |-> "c", error |-> sim.error,
                             stateVector |-> sim.stateVector,
                             probabilities |-> sim.probabilities,
                             measurements |-> m]
               /\ IF sim.error = "none"
                  THEN LET block == Allocate(nextId, ResultObjects(numQubits))
                       IN  /\ held' = Append(held,
                                   [stateVector |-> sim.stateVector,
                                    probabilities |-> sim.probabilities,
                                    measurements |-> m,
                                    unitaryMatrix |-> calculateUnitaryMatrix(circuitC),
                                    qasm |-> qasm(circuitC),
                                    objects |-> block.objects])
                           /\ nextId' = block.free
                  ELSE UNCHANGED <<held, nextId>>
    /\ last' = "run"
    /\ UNCHANGED <<numQubits, numClbits, gates, state, calls, pre, snapshot, dgates,
                   network, netCalls>>

\* JSON.parse(JSON.stringify(grid)): every cell becomes an object of its own
\* with the same name, id and options.  The new identities are negative
\* numbers, one per grid position, apart from every id addGate hands out.
JsonCopy(grid) ==
    [wire \in DOMAIN grid |->
        [k \in 1..Len(grid[wire]) |->
            IF IsGate(grid[wire][k])
            THEN [grid[wire][k] EXCEPT
                     !.ref = 0 - (((wire + k) * (wire + k + 1)) \div 2 + k)]
            ELSE Null]]

\* d = QuantumCircuit.fromJSON(snapshot of c.toJSON()); asText: the snapshot
\* went through JSON.stringify and JSON.parse first
fromJSON(asText) ==
    /\ snapshot = "none"
    /\ snapshot' = IF asText THEN "text" ELSE "direct"
    /\ dgates' = IF asText THEN JsonCopy(gates) ELSE dgates
    /\ last' = "fromJSON"
    /\ UNCHANGED <<numQubits, numClbits, gates, state, nextId, calls, pre, result,
                   held, network, netCalls>>

\* d.addGate(gateName, -1, wireList) through a builder method of d, the
\* restored circuit: addGate works on d.gates, which is the array c.gates
\* itself when the snapshot object was passed directly
PlaceRestored(gateName, wireList) ==
    /\ snapshot # "none"
    /\ LET out == addGate(circuitD, gateName, 0 - 1, wireList, NoOptions, nextId)
       IN  IF snapshot = "direct"
           THEN gates' = out.gates /\ UNCHANGED dgates
           ELSE dgates' = out.gates /\ UNCHANGED gates
    /\ nextId' = nextId + 1
    /\ last' = "placeRestored"
    /\ UNCHANGED <<numQubits, numClbits, state, calls, pre, result, snapshot,
                   held, network, netCalls>>

(***************************************************************************)
(* QuantumNetwork.  A Map is a sequence of its values in insertion order;  *)
(* every value carries its key as "id".  The id of an entanglement, the    *)
(* string `${node1Id}-${qubit1}_${node2Id}-${qubit2}`, is kept as the      *)
(* tuple of the four numbers.                                              *)
(***************************************************************************)
circuitVars == <<numQubits, numClbits, gates, state, nextId, calls, pre, last,
                 result, snapshot, dgates, held>>

\* map.has(key)
MapHas(entries, key) == \E k \in 1..Len(entries) : entries[k].id = key

\* map.get(key) of a key the map has
MapGet(entries, key) == entries[CHOOSE k \in 1..Len(entries) : entries[k].id = key]

\* map.set(entry.id, entry): a key the map has keeps its place
MapSet(entries, entry) ==
    IF MapHas(entries, entry.id)
    THEN [k \in 1..Len(entries) |->
             IF entries[k].id = entry.id THEN entry ELSE entries[k]]
    ELSE Append(entries, entry)

\* map.delete(key) for every key in keys
MapDelete(entries, keys) == SelectSeq(entries, LAMBDA entry : entry.id \notin keys)

\* new QuantumNetworkNode(id, name, qubits), with its own empty circuit
QuantumNetworkNode(id, qubits) ==
    [id |-> id, qubits |-> qubits, gates |-> EmptyGrid(qubits)]

QuantumEntanglement(node1Id, qubit1, node2Id, qubit2) ==
    [node1Id |-> node1Id, qubit1 |-> qubit1, node2Id |-> node2Id, qubit2 |-> qubit2,
     id |-> <<node1Id, qubit1, node2Id, qubit2>>]

\* one call on the network: what it threw or returned and what it left
NetworkCall(op, args, threw, returned, after) ==
    /\ network' = after
    /\ netCalls' = Append(netCalls, [op |-> op, args |-> args, threw |-> threw,
                                     returned |-> returned, before |-> network])
    /\ UNCHANGED circuitVars

\* addNode(name, qubits): returns the node; "returned" is its id
addNode(qubits) ==
    LET nodeId == network.nextNodeId
    IN  NetworkCall("addNode", <<qubits>>, FALSE, nodeId,
                    [network EXCEPT
                        !.nextNodeId = nodeId + 1,
                        !.nodes = MapSet(@, QuantumNetworkNode(nodeId, qubits))])

\* entanglementsToRemove collecting only the entanglements that have the
\* node as their first endpoint
entanglementsToRemoveFirstEndpoint(nodeId) ==
    {network.entanglements[k].id : k \in
        {j \in 1..Len(network.entanglements) :
            network.entanglements[j].node1Id = nodeId}}

entanglementsToRemove(nodeId) ==
    {network.entanglements[k].id : k \in
        {j \in 1..Len(network.entanglements) :
            \/ network.entanglements[j].node1Id = nodeId
            \/ network.entanglements[j].node2Id = nodeId}}

removeNode(nodeId) ==
    IF ~MapHas(network.nodes, nodeId)
    THEN NetworkCall("removeNode", <<nodeId>>, TRUE, 0 - 1, network)
    ELSE NetworkCall("removeNode", <<nodeId>>, FALSE, 0 - 1,
                     [network EXCEPT
                         !.entanglements = MapDelete(@, entanglementsToRemove(nodeId)),
                         !.nodes = MapDelete(@, {nodeId})])

\* AlreadyEntangled comparing each new endpoint only with the stored
\* endpoints of its own side
AlreadyEntangledSameSide(node1Id, qubit1, node2Id, qubit2) ==
    \E k \in 1..Len(network.entanglements) :
        LET entanglement == network.entanglements[k]
        IN  \/ entanglement.node1Id = node1Id /\ entanglement.qubit1 = qubit1
            \/ entanglement.node2Id = node2Id /\ entanglement.qubit2 = qubit2

\* some stored entanglement has (node1Id, qubit1) or (node2Id, qubit2) as
\* its first or second endpoint
AlreadyEntangled(node1Id, qubit1, node2Id, qubit2) ==
    \E k \in 1..Len(network.entanglements) :
        LET entanglement == network.entanglements[k]
        IN  \/ entanglement.node1Id = node1Id /\ entanglement.qubit1 = qubit1
            \/ entanglement.node2Id = node1Id /\ entanglement.qubit2 = qubit1
            \/ entanglement.node1Id = node2Id /\ entanglement.qubit1 = qubit2
            \/ entanglement.node2Id = node2Id /\ entanglement.qubit2 = qubit2

addEntanglement(node1Id, qubit1, node2Id, qubit2) ==
    LET args == <<node1Id, qubit1, node2Id, qubit2>>
        threw ==
            IF ~MapHas(network.nodes, node1Id) \/ ~MapHas(network.nodes, node2Id)
            THEN TRUE
            ELSE IF \/ qubit1 >= MapGet(network.nodes, node1Id).qubits
                    \/ qubit2 >= MapGet(network.nodes, node2Id).qubits
            THEN TRUE
            ELSE AlreadyEntangled(node1Id, qubit1, node2Id, qubit2)
    IN  IF threw
        THEN NetworkCall("addEntanglement", args, TRUE, 0 - 1, network)
        ELSE NetworkCall("addEntanglement", args, FALSE, 0 - 1,
                         [network EXCEPT
                             !.entanglements =
                                 MapSet(@, QuantumEntanglement(node1Id, qubit1,
                                                               node2Id, qubit2))])

removeEntanglement(entanglementId) ==
    IF ~MapHas(network.entanglements, entanglementId)
    THEN NetworkCall("removeEntanglement", entanglementId, TRUE, 0 - 1, network)
    ELSE NetworkCall("removeEntanglement", entanglementId, FALSE, 0 - 1,
                     [network EXCEPT !.entanglements = MapDelete(@, {entanglementId})])

clear ==
    NetworkCall("clear", << >>, FALSE, 0 - 1,
                [nodes |-> << >>, entanglements |-> << >>, nextNodeId |-> 0])

\* node.addGate(gateName, ...args), that is node.circuit[gateName](...args):
\* one builder call on the circuit of the node, given as the placement it
\* makes
nodeAddGate(nodeId, gateName, wireList, options) ==
    LET node == MapGet(network.nodes, nodeId)
        out == addGate([numQubits |-> node.qubits, numClbits |-> 0, gates |-> node.gates],
                       gateName, 0 - 1, wireList, options, nextId)
    IN  /\ MapHas(network.nodes, nodeId)
        /\ network' = [network EXCEPT
                          !.nodes = MapSet(@, [node EXCEPT !.gates = out.gates])]
        /\ netCalls' = Append(netCalls,
                              [op |-> "nodeAddGate",
                               args |-> <<nodeId, gateName, wireList, options>>,
                               threw |-> out.threw, returned |-> 0 - 1,
                               before |-> network])
        /\ nextId' = nextId + 1
        /\ UNCHANGED <<numQubits, numClbits, gates, state, calls, pre, last, result,
                       snapshot, dgates, held>>

\* totalQubits after the first k nodes: nodeOffsets of node k + 1
RECURSIVE QubitsBefore(_, _)
QubitsBefore(nodes, k) ==
    IF k <= 1 THEN 0 ELSE QubitsBefore(nodes, k - 1) + nodes[k - 1].qubits

\* nodeOffsets.get(nodeId)
nodeOffsets(nodes, nodeId) ==
    QubitsBefore(nodes, CHOOSE k \in 1..Len(nodes) : nodes[k].id = nodeId)

BuilderCall(op, wireList, options) == [op |-> op, wires |-> wireList, options |-> options]

\* globalWires[k - 1]; past the end of the array it is undefined, which no
\* row of the grid answers to, like the wire -1
GlobalWire(globalWires, k) ==
    IF k <= Len(globalWires) THEN globalWires[k] ELSE 0 - 1

\* the builder calls addGateToGlobalCircuit makes for one cell: one for a
\* name of the switch, none for any other name (console.warn) and for a
\* measure without creg
addGateToGlobalCircuit(gateName, globalWires, options) ==
    IF gateName \in {"h", "x", "y", "z", "s", "t"}
    THEN <<BuilderCall(gateName, <<GlobalWire(globalWires, 1)>>, NoOptions)>>
    ELSE IF gateName \in {"cx", "cz", "swap"}
    THEN <<BuilderCall(gateName, <<GlobalWire(globalWires, 1),
                                   GlobalWire(globalWires, 2)>>, NoOptions)>>
    ELSE IF gateName = "ccx"
    THEN <<BuilderCall(gateName, <<GlobalWire(globalWires, 1),
                                   GlobalWire(globalWires, 2),
                                   GlobalWire(globalWires, 3)>>, NoOptions)>>
    ELSE IF gateName \in {"rx", "ry", "rz"}
    THEN <<BuilderCall(gateName, <<GlobalWire(globalWires, 1)>>, Theta(options.theta))>>
    ELSE IF gateName = "measure" /\ options.creg # << >>
    THEN <<BuilderCall("measure", <<GlobalWire(globalWires, 1)>>,
                       [theta |-> 0, lambda |-> 0, creg |-> options.creg])>>
    ELSE << >>

\* the builder calls of translateNodeCircuitToGlobal from cell (col, wire)
\* on: every non-null cell, column by column and wire by wire
RECURSIVE TranslateFrom(_, _, _, _)
TranslateFrom(nodeCircuit, offset, col, wire) ==
    IF col >= numCols(nodeCircuit) THEN << >>
    ELSE IF wire >= nodeCircuit.numQubits
    THEN TranslateFrom(nodeCircuit, offset, col + 1, 0)
    ELSE LET gate == CellAt(nodeCircuit, wire, col)
             gateWires == findGateWires(nodeCircuit, gate)
             globalWires == [k \in 1..Len(gateWires) |-> gateWires[k] + offset]
         IN  (IF IsGate(gate)
              THEN addGateToGlobalCircuit(gate.name, globalWires, gate.options)
              ELSE << >>)
             \o TranslateFrom(nodeCircuit, offset, col, wire + 1)

translateNodeCircuitToGlobal(nodeCircuit, offset) ==
    TranslateFrom(nodeCircuit, offset, 0, 0)

\* Step 1: h and cx for the entanglements from the k-th on
RECURSIVE EntangleFrom(_, _)
EntangleFrom(net, k) ==
    IF k > Len(net.entanglements) THEN << >>
    ELSE LET entanglement == net.entanglements[k]
             globalQubit1 == nodeOffsets(net.nodes, entanglement.node1Id)
                                 + entanglement.qubit1
             globalQubit2 == nodeOffsets(net.nodes, entanglement.node2Id)
                                 + entanglement.qubit2
         IN  <<BuilderCall("h", <<globalQubit1>>, NoOptions),
               BuilderCall("cx", <<globalQubit1, globalQubit2>>, NoOptions)>>
             \o EntangleFrom(net, k + 1)

\* Step 2: the node circuits from the k-th node on
RECURSIVE TranslateNodesFrom(_, _)
TranslateNodesFrom(net, k) ==
    IF k > Len(net.nodes) THEN << >>
    ELSE translateNodeCircuitToGlobal(
             [numQubits |-> net.nodes[k].qubits, numClbits |-> 0,
              gates |-> net.nodes[k].gates],
             QubitsBefore(net.nodes, k))
         \o TranslateNodesFrom(net, k + 1)

\* the builder calls from the k-th on, made on the global circuit; the first
\* that throws ends toCircuit.  measure(qubit, cbit) throws before placing
\* when cbit >= numClbits.
RECURSIVE BuildFrom(_, _, _)
BuildFrom(built, builderCalls, k) ==
    IF k > Len(builderCalls) \/ built.threw THEN built
    ELSE LET call == builderCalls[k]
             refused == /\ call.op = "measure"
                        /\ call.options.creg[1] >= built.numClbits
             out == IF refused
                    THEN [gates |-> built.gates, threw |-> TRUE, column |-> 0 - 1]
                    ELSE addGate(built, call.op, 0 - 1, call.wires, call.options,
                                 built.nextId)
         IN  Strict(LAMBDA next : BuildFrom(next, builderCalls, k + 1),
                    [numQubits |-> built.numQubits,
                     numClbits |-> built.numClbits,
                     gates |-> out.gates,
                     threw |-> out.threw,
                     nextId |-> IF refused THEN built.nextId ELSE built.nextId + 1,
                     calls |-> Append(built.calls,
                                      Call(call.op, call.op, 0 - 1, call.wires,
                                           call.options, out.threw, out.column))])

\* c = network.toCircuit(): the client's c becomes the circuit returned
toCircuit ==
    IF network.nodes = << >>
    THEN /\ netCalls' = Append(netCalls, [op |-> "toCircuit", args |-> << >>,
                                          threw |-> TRUE, returned |-> 0 - 1,
                                          before |-> network])
         /\ UNCHANGED <<network, circuitVars>>
    ELSE LET totalQubits == QubitsBefore(network.nodes, Len(network.nodes) + 1)
             built == BuildFrom([numQubits |-> totalQubits, numClbits |-> totalQubits,
                                 gates |-> EmptyGrid(totalQubits), threw |-> FALSE,
                                 nextId |-> nextId, calls |-> << >>],
                                EntangleFrom(network, 1) \o TranslateNodesFrom(network, 1),
                                1)
         IN  /\ netCalls' = Append(netCalls, [op |-> "toCircuit", args |-> << >>,
                                              threw |-> built.threw,
                                              returned |-> 0 - 1,
                                              before |-> network])
             /\ nextId' = built.nextId
             /\ IF built.threw
                THEN UNCHANGED <<numQubits, numClbits, gates, state, calls, pre, last,
                                 result>>
                ELSE /\ numQubits' = totalQubits
                     /\ numClbits' = totalQubits
                     /\ gates' = built.gates
                     /\ state' = IF built.calls = << >> THEN "zero" ELSE "empty"
                     /\ calls' = built.calls
                     /\ pre' = [gates |-> EmptyGrid(totalQubits), state |-> "zero"]
                     /\ last' = "toCircuit"
                     /\ result' = NoResult
             /\ UNCHANGED <<network, snapshot, dgates, held>>

(***************************************************************************)
(* Specifications.  Each draws the calls of a client program from a menu.  *)
(***************************************************************************)
InRange == Wires(numQubits)

\* the client builds its circuit first and runs it afterwards
Building == result.of = "none"

Placed(op) == \E k \in 1..Len(calls) : calls[k].op = op

\* basis states prepared with x, then cx / ccx on distinct in-range wires
InitBasis == \E n \in 2..MaxQubits : constructor(n, 0)

NextBasis ==
    \/ \E qubit \in InRange : Building /\ Len(calls) < MaxCalls /\ x(qubit)
    \/ \E control \in InRange, target \in InRange :
           Building /\ Len(calls) < MaxCalls /\ control # target /\ cx(control, target)
    \/ \E control1 \in InRange, control2 \in InRange, target \in InRange :
           /\ Building
           /\ Len(calls) < MaxCalls
           /\ Cardinality({control1, control2, target}) = 3
           /\ ccx(control1, control2, target)
    \/ run

SpecBasis == InitBasis /\ [][NextBasis]_vars

\* h(0) and cx between neighbouring wires, at most numQubits of them, with
\* or without a trailing measure_all()
InitGHZ == \E n \in 2..MaxQubits : constructor(n, n)

NextGHZ ==
    \/ /\ Building
       /\ ~Placed("measure_all")
       /\ Len(calls) < numQubits
       /\ h(0)
    \/ \E control \in InRange :
           /\ Building
           /\ ~Placed("measure_all")
           /\ Len(calls) < numQubits
           /\ control + 1 \in InRange
           /\ cx(control, control + 1)
    \/ /\ Building
       /\ ~Placed("measure_all")
       /\ measure_all
    \/ run

SpecGHZ == InitGHZ /\ [][NextGHZ]_vars

\* every builder method, on distinct in-range wires, angles from Angles
\* (counts of pi/4)
Angles == {2}

InitGates == \E n \in 1..MaxQubits : constructor(n, 0)

MayPlaceGate == Building /\ Len(calls) < MaxGates

OneQubitBuilders ==
    \E qubit \in InRange :
        \/ h(qubit) \/ x(qubit) \/ y(qubit) \/ z(qubit) \/ s(qubit) \/ t(qubit)
        \/ sdg(qubit) \/ tdg(qubit) \/ sx(qubit)
        \/ \E theta \in Angles : rx(theta, qubit) \/ ry(theta, qubit) \/ rz(theta, qubit)
        \/ \E lambda \in Angles : p(lambda, qubit) \/ phase(lambda, qubit)

TwoQubitBuilders ==
    \E control \in InRange, target \in InRange :
        /\ control # target
        /\ \/ cx(control, target) \/ cy(control, target) \/ cz(control, target)
           \/ ch(control, target) \/ swap(control, target)
           \/ \E lambda \in Angles : cp(lambda, control, target)
           \/ \E theta \in Angles :
                  \/ crx(theta, control, target)
                  \/ cry(theta, control, target)
                  \/ crz(theta, control, target)
                  \/ \E lambda \in Angles : cu(theta, lambda, control, target)

ThreeQubitBuilders ==
    \E control1 \in InRange, control2 \in InRange, target \in InRange :
        /\ Cardinality({control1, control2, target}) = 3
        /\ \/ ccx(control1, control2, target)
           \/ cswap(control1, control2, target)

NextGates ==
    \/ MayPlaceGate /\ OneQubitBuilders
    \/ MayPlaceGate /\ TwoQubitBuilders
    \/ MayPlaceGate /\ ThreeQubitBuilders
    \/ run

SpecGates == InitGates /\ [][NextGates]_vars

\* placement calls with any wire of -1..numQubits (out of range and
\* repeated wires included), explicit columns, and measurements into any
\* classical bit of -1..numClbits
AnyWire == (0 - 1)..numQubits
Columns == 0..MaxCol

InitPlace == \E n \in 1..PlaceQubits, m \in 0..1 : constructor(n, m)

MayPlace == Len(calls) < MaxCalls

NextPlace ==
    \/ \E qubit \in AnyWire : MayPlace /\ h(qubit)
    \/ \E control \in AnyWire, target \in AnyWire : MayPlace /\ cx(control, target)
    \/ \E useAll \in BOOLEAN : MayPlace /\ barrier(useAll, << >>)
    \/ \E column \in Columns, qubit \in AnyWire :
           MayPlace /\ addGateCall("h", column, <<qubit>>)
    \/ \E qubit \in InRange, cbit \in (0 - 1)..numClbits :
           MayPlace /\ measure(qubit, cbit)
    \/ MayPlace /\ measure_all

SpecPlace == InitPlace /\ [][NextPlace]_vars

\* appends on distinct in-range wires, onto grids shaped by explicit-column
\* placements, by an empty barrier and by a call that fails after padding
InitAppend == \E n \in 1..PlaceQubits : constructor(n, 0)

NextAppend ==
    \/ \E qubit \in InRange : MayPlace /\ h(qubit)
    \/ \E control \in InRange, target \in InRange :
           MayPlace /\ control # target /\ cx(control, target)
    \/ MayPlace /\ barrier(FALSE, << >>)
    \/ \E column \in Columns, qubit \in InRange :
           MayPlace /\ addGateCall("h", column, <<qubit>>)
    \/ MayPlace /\ h(numQubits)

SpecAppend == InitAppend /\ [][NextAppend]_vars

\* addGate with a name of the library or another name, then run()
InitNames == \E n \in 1..PlaceQubits : constructor(n, 0)

NextNames ==
    \/ \E gateName \in {"h", "x", "foo"}, qubit \in InRange :
           Building /\ MayPlace /\ addGateCall(gateName, 0 - 1, <<qubit>>)
    \/ run

SpecNames == InitNames /\ [][NextNames]_vars

\* a circuit of h and cx, a snapshot of it restored as d (passed directly or
\* through JSON text), and runs of both
InitJson == \E n \in 1..MaxQubits : constructor(n, 0)

MayBuildJson == Building /\ snapshot = "none" /\ Len(calls) < MaxGates

NextJson ==
    \/ \E qubit \in InRange : MayBuildJson /\ h(qubit)
    \/ \E control \in InRange, target \in InRange :
           MayBuildJson /\ control # target /\ cx(control, target)
    \/ \E asText \in BOOLEAN : fromJSON(asText)
    \/ run
    \/ runRestored

SpecJson == InitJson /\ [][NextJson]_vars

\* two qubits and two classical bits: h(0), x and cx(0, 1) with
\* measure(qubit, cbit) and measure_all(), in any order; the client runs
\* a circuit once it holds a measure directive
InitMeasure == constructor(2, 2)

MayPlaceMeasured == Building /\ Len(calls) < MaxCalls

NextMeasure ==
    \/ MayPlaceMeasured /\ h(0)
    \/ \E qubit \in InRange : MayPlaceMeasured /\ x(qubit)
    \/ MayPlaceMeasured /\ cx(0, 1)
    \/ \E qubit \in InRange, cbit \in 0..(numClbits - 1) :
           MayPlaceMeasured /\ measure(qubit, cbit)
    \/ MayPlaceMeasured /\ measure_all
    \/ MeasureCells(circuitC) # {} /\ run

SpecMeasure == InitMeasure /\ [][NextMeasure]_vars

\* one or two qubits: h, t, cx and measure(qubit, 0), then r1 = c.run(),
\* r2 = c.run(), ... on the unmodified circuit, every result kept
InitRuns == \E n \in 1..2 : constructor(n, 1)

MayPlaceBeforeRuns == Building /\ Len(calls) < MaxGates

NextRuns ==
    \/ \E qubit \in InRange : MayPlaceBeforeRuns /\ h(qubit)
    \/ \E qubit \in InRange : MayPlaceBeforeRuns /\ t(qubit)
    \/ \E control \in InRange, target \in InRange :
           MayPlaceBeforeRuns /\ control # target /\ cx(control, target)
    \/ \E qubit \in InRange : MayPlaceBeforeRuns /\ measure(qubit, 0)
    \/ runKept

SpecRuns == InitRuns /\ [][NextRuns]_vars

\* Networks.  Nodes of one or two qubits; node ids from those handed out
\* and the next one; qubit indexes from one below to one above the range of
\* a node.  An error a call raises ends the client program.
NodeSizes == {1, 2}
QubitIndexes == (0 - 1)..2

NodeIds == 0..network.nextNodeId

EntanglementIds ==
    {network.entanglements[k].id : k \in 1..Len(network.entanglements)}
        \cup {<<0, 0, 1, 0>>}

LastNetCall == netCalls[Len(netCalls)]

MayCallNetwork ==
    /\ Len(netCalls) < MaxNetCalls
    /\ netCalls # << >> => ~LastNetCall.threw

InitNetwork == constructor(1, 0)

NextNetwork ==
    \/ \E qubits \in NodeSizes : MayCallNetwork /\ addNode(qubits)
    \/ \E nodeId \in NodeIds : MayCallNetwork /\ removeNode(nodeId)
    \/ \E node1Id \in NodeIds, node2Id \in NodeIds,
          qubit1 \in QubitIndexes, qubit2 \in QubitIndexes :
           MayCallNetwork /\ addEntanglement(node1Id, qubit1, node2Id, qubit2)
    \/ \E entanglementId \in EntanglementIds :
           MayCallNetwork /\ removeEntanglement(entanglementId)
    \/ MayCallNetwork /\ clear

SpecNetwork == InitNetwork /\ [][NextNetwork]_vars

\* A network of at most MaxNodes nodes with empty circuits and at most one
\* entanglement at a time, then c = network.toCircuit() and c.run()
NodeIdsPresent == {network.nodes[k].id : k \in 1..Len(network.nodes)}

MayBuildNetwork ==
    /\ last = "new"
    /\ netCalls # << >> => ~LastNetCall.threw

InitToCircuit == constructor(1, 0)

NextToCircuit ==
    \/ \E qubits \in NodeSizes :
           MayBuildNetwork /\ network.nextNodeId < MaxNodes /\ addNode(qubits)
    \/ \E nodeId \in NodeIdsPresent : MayBuildNetwork /\ removeNode(nodeId)
    \/ \E node1Id \in NodeIdsPresent, node2Id \in NodeIdsPresent,
          qubit1 \in QubitIndexes, qubit2 \in QubitIndexes :
           /\ MayBuildNetwork
           /\ network.entanglements = << >>
           /\ addEntanglement(node1Id, qubit1, node2Id, qubit2)
    \/ MayBuildNetwork /\ toCircuit
    \/ last = "toCircuit" /\ run

SpecToCircuit == InitToCircuit /\ [][NextToCircuit]_vars

\* At most MaxNodes nodes, then at most MaxGates builder calls on the node
\* circuits (h, sdg, rx, cx on in-range wires), then network.toCircuit()
NodeWires(nodeId) == Wires(MapGet(network.nodes, nodeId).qubits)

PlacedOnNodes == Len(SelectSeq(netCalls, LAMBDA call : call.op = "nodeAddGate"))

MayPlaceOnNode == MayBuildNetwork /\ PlacedOnNodes < MaxGates

InitTranslate == constructor(1, 0)

NextTranslate ==
    \/ \E qubits \in NodeSizes :
           /\ MayBuildNetwork
           /\ PlacedOnNodes = 0
           /\ network.nextNodeId < MaxNodes
           /\ addNode(qubits)
    \/ \E nodeId \in NodeIdsPresent :
           \E qubit \in NodeWires(nodeId), gateName \in {"h", "sdg"} :
               MayPlaceOnNode /\ nodeAddGate(nodeId, gateName, <<qubit>>, NoOptions)
    \/ \E nodeId \in NodeIdsPresent :
           \E qubit \in NodeWires(nodeId), theta \in Angles :
               MayPlaceOnNode /\ nodeAddGate(nodeId, "rx", <<qubit>>, Theta(theta))
    \/ \E nodeId \in NodeIdsPresent :
           \E control \in NodeWires(nodeId), target \in NodeWires(nodeId) :
               /\ MayPlaceOnNode
               /\ control # target
               /\ nodeAddGate(nodeId, "cx", <<control, target>>, NoOptions)
    \/ MayBuildNetwork /\ toCircuit

SpecTranslate == InitTranslate /\ [][NextTranslate]_vars

\* two qubits and one classical bit: h and cx(0, 1) appended, h at column 0 (left
\* of every appended gate) or 1 (over the first appended gate), measure and
\* barrier directives, then run()
InitSchedule == constructor(2, 1)

MayPlaceScheduled == Building /\ Len(calls) < MaxCalls

NextSchedule ==
    \/ \E qubit \in InRange : MayPlaceScheduled /\ h(qubit)
    \/ MayPlaceScheduled /\ cx(0, 1)
    \/ \E column \in {0, 1}, qubit \in InRange :
           MayPlaceScheduled /\ addGateCall("h", column, <<qubit>>)
    \/ MayPlaceScheduled /\ measure(1, 0)
    \/ MayPlaceScheduled /\ barrier(TRUE, << >>)
    \/ run

SpecSchedule == InitSchedule /\ [][NextSchedule]_vars

\* At most MaxNodes nodes of two qubits, then entanglements between the
\* same qubit index of two nodes, then at most MaxGates builder calls (h(0),
\* cx(0, 1)) on the node circuits, then network.toCircuit().  The node
\* circuits are separate objects: the client fills them in the order of the
\* node ids.
NoGateOnLaterNode(nodeId) ==
    \A k \in 1..Len(netCalls) :
        netCalls[k].op = "nodeAddGate" => netCalls[k].args[1] <= nodeId

InitReplay == constructor(1, 0)

NextReplay ==
    \/ /\ MayBuildNetwork
       /\ network.entanglements = << >>
       /\ PlacedOnNodes = 0
       /\ network.nextNodeId < MaxNodes
       /\ addNode(2)
    \/ \E node1Id \in NodeIdsPresent, node2Id \in NodeIdsPresent, qubit \in Wires(2) :
           /\ MayBuildNetwork
           /\ PlacedOnNodes = 0
           /\ Len(network.entanglements) < MaxNodes
           /\ node1Id # node2Id
           /\ addEntanglement(node1Id, qubit, node2Id, qubit)
    \/ \E nodeId \in NodeIdsPresent :
           /\ MayPlaceOnNode
           /\ NoGateOnLaterNode(nodeId)
           /\ nodeAddGate(nodeId, "h", <<0>>, NoOptions)
    \/ \E nodeId \in NodeIdsPresent :
           /\ MayPlaceOnNode
           /\ NoGateOnLaterNode(nodeId)
           /\ nodeAddGate(nodeId, "cx", <<0, 1>>, NoOptions)
    \/ MayBuildNetwork /\ toCircuit

SpecReplay == InitReplay /\ [][NextReplay]_vars

\* one or two qubits: h, y, ry and cx, then r = c.run() with the result
\* kept
InitUnitary == \E n \in 1..2 : constructor(n, 0)

NextUnitary ==
    \/ \E qubit \in InRange : MayPlaceBeforeRuns /\ h(qubit)
    \/ \E qubit \in InRange : MayPlaceBeforeRuns /\ y(qubit)
    \/ \E qubit \in InRange, theta \in Angles : MayPlaceBeforeRuns /\ ry(theta, qubit)
    \/ \E control \in InRange, target \in InRange :
           MayPlaceBeforeRuns /\ control # target /\ cx(control, target)
    \/ runKept

SpecUnitary == InitUnitary /\ [][NextUnitary]_vars

\* h and cx on c, d = QuantumCircuit.fromJSON(c.toJSON()) (or through JSON
\* text), then h and cx on c and h on d, at most MaxCalls placements in all
MayPlaceEither == nextId <= MaxCalls

InitRestore == \E n \in 1..PlaceQubits : constructor(n, 0)

NextRestore ==
    \/ \E qubit \in InRange : MayPlaceEither /\ h(qubit)
    \/ \E control \in InRange, target \in InRange :
           MayPlaceEither /\ control # target /\ cx(control, target)
    \/ \E asText \in BOOLEAN : fromJSON(asText)
    \/ \E qubit \in InRange : MayPlaceEither /\ PlaceRestored("h", <<qubit>>)

SpecRestore == InitRestore /\ [][NextRestore]_vars

(***************************************************************************)
(* Properties of run() on basis states (SpecBasis)                         *)
(***************************************************************************)
\* the basis index the documented x, cx and ccx take index 0 to along the
\* first k calls: cx flips its target when the control bit is 1, ccx flips
\* its target when both control bits are 1
RECURSIVE DocumentedBasis(_)
DocumentedBasis(k) ==
    IF k = 0 THEN 0
    ELSE LET b == DocumentedBasis(k - 1)
             w == calls[k].wires
         IN  CASE calls[k].name = "x" -> Flip(b, w[1])
               [] calls[k].name = "cx" ->
                      IF Bit(b, w[1]) = 1 THEN Flip(b, w[2]) ELSE b
               [] calls[k].name = "ccx" ->
                      IF Bit(b, w[1]) = 1 /\ Bit(b, w[2]) = 1 THEN Flip(b, w[3]) ELSE b
               [] OTHER -> b

\* the last run() of c returned, with probability 1 on basis index b
RunIsCertainOf(b) ==
    /\ result.of = "c"
    /\ result.error = "none"
    /\ \A st \in 0..(Pow2(numQubits) - 1) :
           result.probabilities[st] = IF st = b THEN ROne ELSE RZero

\* calls 1..k-1 are x and call k is named gateName
PreparedThen(gateName) ==
    /\ Len(calls) >= 1
    /\ calls[Len(calls)].name = gateName
    /\ \A k \in 1..(Len(calls) - 1) : calls[k].name = "x"

\* C1: on a basis state prepared with x gates, run() of a following
\* cx(control, target), control # target in range, gives probability 1 to the
\* basis state whose target bit is flipped iff the control bit is 1
C1_CxFlipsTargetIffControl ==
    (last = "run" /\ PreparedThen("cx")) => RunIsCertainOf(DocumentedBasis(Len(calls)))

\* C2: on a basis state prepared with x gates, run() of a following
\* ccx(control1, control2, target) on three distinct wires gives probability 1
\* to the basis state whose target bit is flipped iff both control bits are 1
C2_CcxFlipsTargetIffBothControls ==
    (last = "run" /\ PreparedThen("ccx")) => RunIsCertainOf(DocumentedBasis(Len(calls)))

(***************************************************************************)
(* Bell and GHZ circuits (SpecGHZ)                                         *)
(***************************************************************************)
\* the calls so far are h(0), cx(0,1), ..., cx(n-2,n-1), then at most a
\* measure_all()
IsGHZChain ==
    /\ Len(calls) \in {numQubits, numQubits + 1}
    /\ calls[1].op = "h"
    /\ \A k \in 2..numQubits :
           calls[k].op = "cx" /\ calls[k].wires = <<k - 2, k - 1>>
    /\ Len(calls) = numQubits + 1 => calls[numQubits + 1].op = "measure_all"

Half == R(1, 0, 1)

\* C3: run() after h(0), cx(0,1), ..., cx(n-2,n-1), with or without a
\* trailing measure_all(), gives probability 1/2 to all-zeros, 1/2 to all-ones
\* and 0 to every other basis state
C3_GHZProbabilities ==
    (last = "run" /\ IsGHZChain) =>
        /\ result.error = "none"
        /\ \A st \in 0..(Pow2(numQubits) - 1) :
               result.probabilities[st] =
                   IF st = 0 \/ st = Pow2(numQubits) - 1 THEN Half ELSE RZero

\* the GHZ circuit on three qubits with measure_all() has been run
C3_Witness ==
    /\ last = "run"
    /\ IsGHZChain
    /\ numQubits = 3
    /\ Len(calls) = 4
    /\ result.probabilities[7] = Half

(***************************************************************************)
(* Circuits of library gates (SpecGates)                                   *)
(***************************************************************************)
\* the sum of the probabilities the last run() returned
TotalProbability ==
    LET perValue == calculateQubitProbabilities(result.probabilities, 0)
    IN  RAdd(perValue[1], perValue[2])

\* C4: the probabilities run() returns for a circuit built with the builder
\* methods sum to 1
C4_ProbabilitiesSumToOne ==
    (last = "run" /\ result.error = "none") => TotalProbability = ROne

(***************************************************************************)
(* Placement (SpecPlace, SpecAppend, SpecNames)                            *)
(***************************************************************************)
LastCall == calls[Len(calls)]

\* the wire list names a wire outside 0..numQubits-1, or a wire twice
BadWireList(wireList) ==
    \/ \E k \in 1..Len(wireList) : wireList[k] \notin InRange
    \/ \E j, k \in 1..Len(wireList) : j # k /\ wireList[j] = wireList[k]

IsGatePlacement == last = "place" /\ LastCall.op \in {"h", "cx", "barrier", "addGate"}

\* C5: a placement whose wire list has an out-of-range wire or a repeated
\* wire raises an error at the placement call
C5_BadWiresRejectedAtPlacement ==
    (IsGatePlacement /\ BadWireList(LastCall.wires)) => LastCall.threw

\* C6: a placement call that raises an error leaves the grid and the cached
\* state as they were before the call
C6_FailedPlacementChangesNothing ==
    (last = "place" /\ LastCall.threw) => (gates = pre.gates /\ state = pre.state)

\* C7: a gate name outside the gate library is refused at the placement
\* call, and run() never meets an unknown gate name
C7_UnknownNameRejectedAtPlacement ==
    /\ (last = "place" /\ ~hasGate(LastCall.name)) => LastCall.threw
    /\ last = "run" => result.error # "UnknownGate"

\* C8: measure(qubit, cbit) raises an error and places nothing when there is
\* no classical register or cbit is outside 0..numClbits-1
C8_MeasureRejectsBadClassicalBit ==
    (/\ last = "place"
     /\ LastCall.op = "measure"
     /\ (numClbits = 0 \/ LastCall.options.creg[1] \notin 0..(numClbits - 1)))
    => (LastCall.threw /\ gates = pre.gates)

\* the columns of the grid before the last call that hold a gate
NonEmptyColumnsBefore ==
    {col \in 0..(Len(pre.gates[0]) - 1) :
        \E wire \in InRange : IsGate(pre.gates[wire][col + 1])}

IsValidAppend ==
    /\ last = "place"
    /\ LastCall.column < 0
    /\ LastCall.wires # << >>
    /\ ~BadWireList(LastCall.wires)

\* C9: an append on valid wires does not throw, writes the new gate on its
\* wires in one column that is greater than every column that held a gate,
\* and leaves every cell that held a gate as it was
C9_AppendAfterGlobalFrontier ==
    IsValidAppend =>
        /\ ~LastCall.threw
        /\ \A col \in NonEmptyColumnsBefore : col < LastCall.target
        /\ \A k \in 1..Len(LastCall.wires) :
               /\ Len(gates[LastCall.wires[k]]) > LastCall.target
               /\ gates[LastCall.wires[k]][LastCall.target + 1].id = nextId - 1
        /\ \A wire \in InRange : \A col \in 1..Len(pre.gates[wire]) :
               IsGate(pre.gates[wire][col]) => gates[wire][col] = pre.gates[wire][col]

\* an append on a wire below the frontier: the last gate of the grid is on
\* another wire, in a column after an empty one, and the append went two
\* columns further
C9_Witness ==
    /\ IsValidAppend
    /\ LastCall.op = "h"
    /\ NonEmptyColumnsBefore # {}
    /\ \A col \in NonEmptyColumnsBefore : col + 2 <= LastCall.target
    /\ \E col \in NonEmptyColumnsBefore : col + 2 = LastCall.target
    /\ Cardinality(NonEmptyColumnsBefore) >= 2

(***************************************************************************)
(* Snapshots (SpecJson)                                                    *)
(***************************************************************************)
\* C10: run() of the circuit restored from a snapshot of c, passed directly
\* or through JSON text, returns the probabilities run() of c returns
C10_RestoredCircuitRunsAlike ==
    (last = "run" /\ result.of = "d") =>
        /\ result.error = simulate(circuitC).error
        /\ result.probabilities = simulate(circuitC).probabilities

(***************************************************************************)
(* Measurements (SpecMeasure)                                              *)
(***************************************************************************)
\* the probability that `wire` reads 1 in the final state of the last run
MarginalOfOne(wire) ==
    SumWhere(result.probabilities, 0, Pow2(numQubits) - 1, wire, 1)

DirectiveLabel(pos) == MeasureLabel(CellAt(circuitC, pos[2], pos[1]), pos[2])

\* the value reported under the label of the directive at `pos` is one its
\* own wire can give
ReportsOwnWire(pos) ==
    /\ DirectiveLabel(pos) \in DOMAIN result.measurements
    /\ result.measurements[DirectiveLabel(pos)] \in {0, 1}
    /\ result.measurements[DirectiveLabel(pos)] = 1 => RLess(RZero, MarginalOfOne(pos[2]))
    /\ result.measurements[DirectiveLabel(pos)] = 0 => RLess(MarginalOfOne(pos[2]), ROne)

\* no later directive (column by column, wire by wire) has the label of `pos`
LastOfItsLabel(pos) ==
    \A other \in MeasureCells(circuitC) :
        DirectiveLabel(other) = DirectiveLabel(pos) =>
            \/ other[1] < pos[1]
            \/ other[1] = pos[1] /\ other[2] <= pos[2]

RanCleanly == last = "run" /\ result.of = "c" /\ result.error = "none"

\* the reports run() of the circuit built so far draws from: every label
\* with any value the wire of its last directive can give, in every
\* combination
IndependentReports ==
    LET sim == simulate(circuitC)
        cells == {pos \in MeasureCells(circuitC) : LastOfItsLabel(pos)}
        labels == {DirectiveLabel(pos) : pos \in cells}
        marginal(wire) == SumWhere(sim.probabilities, 0, Pow2(numQubits) - 1, wire, 1)
        allowed(report) ==
            \A pos \in cells :
                /\ report[DirectiveLabel(pos)] = 1 => RLess(RZero, marginal(pos[2]))
                /\ report[DirectiveLabel(pos)] = 0 => RLess(marginal(pos[2]), ROne)
    IN  sim.error = "none" =>
            handleMeasurements(circuitC, sim.probabilities)
                = {report \in [labels -> {0, 1}] : allowed(report)}

IsMeasuredBell ==
    /\ numQubits = 2
    /\ Len(calls) = 3
    /\ calls[1].op = "h" /\ calls[1].wires = <<0>>
    /\ calls[2].op = "cx" /\ calls[2].wires = <<0, 1>>
    /\ calls[3].op = "measure_all"
    /\ \A k \in 1..3 : ~calls[k].threw

\* C12: run() of the Bell circuit h(0), cx(0, 1) with both qubits measured
\* reports equal values for the two qubits.
C12_BellOutcomesAgree ==
    (RanCleanly /\ IsMeasuredBell) =>
        result.measurements[<<"creg", 0>>] = result.measurements[<<"creg", 1>>]

(***************************************************************************)
(* Results of run() kept by the client (SpecRuns)                          *)
(***************************************************************************)
\* the gate objects in the cells of c
CircuitObjects ==
    {gates[wire][k].ref : wire \in Wires(numQubits), k \in 1..Len(gates[0])} \ {0}

KeptResultsAgree ==
    \A a \in 1..Len(held), b \in 1..Len(held) :
        a < b =>
            /\ held[a].stateVector = held[b].stateVector
            /\ held[a].probabilities = held[b].probabilities
            /\ held[a].unitaryMatrix = held[b].unitaryMatrix
            /\ held[a].objects \cap held[b].objects = {}

KeptResultsOwnTheirStorage ==
    \A a \in 1..Len(held) :
        /\ Cardinality(held[a].objects) = ResultObjects(numQubits)
        /\ held[a].objects \cap CircuitObjects = {}

RunLeavesCircuit ==
    last' = "run" => UNCHANGED <<numQubits, numClbits, gates, state>>

EndpointsOf(entanglement) ==
    {<<entanglement.node1Id, entanglement.qubit1>>,
     <<entanglement.node2Id, entanglement.qubit2>>}

EndpointsIn(net) ==
    UNION {EndpointsOf(net.entanglements[k]) : k \in 1..Len(net.entanglements)}

NodeIdsIn(net) == {net.nodes[k].id : k \in 1..Len(net.nodes)}

QubitsOf(net, nodeId) ==
    (CHOOSE node \in {net.nodes[k] : k \in 1..Len(net.nodes)} : node.id = nodeId).qubits

\* the arguments of an addEntanglement call that the network `net` must
\* refuse
MustRefuse(net, args) ==
    \/ args[1] \notin NodeIdsIn(net)
    \/ args[3] \notin NodeIdsIn(net)
    \/ /\ args[1] \in NodeIdsIn(net)
       /\ args[3] \in NodeIdsIn(net)
       /\ \/ args[2] \notin 0..(QubitsOf(net, args[1]) - 1)
          \/ args[4] \notin 0..(QubitsOf(net, args[3]) - 1)
          \/ <<args[1], args[2]>> \in EndpointsIn(net)
          \/ <<args[3], args[4]>> \in EndpointsIn(net)

\* C17: addEntanglement with an absent node id, a qubit index outside
\* 0..qubits-1 (negative ones included) or an endpoint that a stored
\* entanglement already has raises an error and leaves the network as it was.
C17_AddEntanglementRefusesBadEndpoints ==
    (netCalls # << >> /\ LastNetCall.op = "addEntanglement"
        /\ MustRefuse(LastNetCall.before, LastNetCall.args))
    => (LastNetCall.threw /\ network = LastNetCall.before)

\* C18: no pair (node id, qubit index) is an endpoint of two different
\* stored entanglements, on whichever side.
C18_EndpointsAreExclusive ==
    \A j \in 1..Len(network.entanglements), k \in 1..Len(network.entanglements) :
        j # k =>
            EndpointsOf(network.entanglements[j])
                \cap EndpointsOf(network.entanglements[k]) = {}

\* two stored entanglements with one node on the first side of one and on
\* the second side of the other
C18_Witness ==
    /\ Len(network.entanglements) = 2
    /\ network.entanglements[1].node1Id = network.entanglements[2].node2Id
    /\ network.entanglements[1].node2Id # network.entanglements[1].node1Id

\* what removeNode(nodeId) must leave of the network `net`
WithoutNode(net, nodeId) ==
    [nodes |-> SelectSeq(net.nodes, LAMBDA node : node.id # nodeId),
     entanglements |->
         SelectSeq(net.entanglements,
                   LAMBDA entanglement :
                       entanglement.node1Id # nodeId /\ entanglement.node2Id # nodeId),
     nextNodeId |-> net.nextNodeId]

\* C19: removeNode(id) of a node present removes the node and exactly the
\* entanglements with id as an endpoint; of an absent id it raises an error
\* and changes nothing; both endpoint node ids of every stored entanglement
\* are ids of nodes present.
C19_RemoveNodeTakesItsEntanglements ==
    /\ \A k \in 1..Len(network.entanglements) :
           /\ network.entanglements[k].node1Id \in NodeIdsIn(network)
           /\ network.entanglements[k].node2Id \in NodeIdsIn(network)
    /\ (netCalls # << >> /\ LastNetCall.op = "removeNode") =>
           IF LastNetCall.args[1] \in NodeIdsIn(LastNetCall.before)
           THEN /\ ~LastNetCall.threw
                /\ network = WithoutNode(LastNetCall.before, LastNetCall.args[1])
           ELSE /\ LastNetCall.threw
                /\ network = LastNetCall.before

\* removeNode of the node on the second side of an entanglement, another
\* node staying
C19_Witness ==
    /\ netCalls # << >>
    /\ LastNetCall.op = "removeNode"
    /\ ~LastNetCall.threw
    /\ \E k \in 1..Len(LastNetCall.before.entanglements) :
           /\ LastNetCall.before.entanglements[k].node2Id = LastNetCall.args[1]
           /\ LastNetCall.before.entanglements[k].node1Id # LastNetCall.args[1]
    /\ network.entanglements = << >>
    /\ Len(network.nodes) = 1

\* the ids addNode returned, in call order
IssuedIds == [k \in 1..Len(SelectSeq(netCalls, LAMBDA call : call.op = "addNode")) |->
                 SelectSeq(netCalls, LAMBDA call : call.op = "addNode")[k].returned]

\* C20: addNode returns 0, 1, 2, ... in call order, so never an id it returned
\* before, whatever calls lie in between (clear included).
C20_NodeIdsAreNeverReused ==
    \A k \in 1..Len(IssuedIds) : IssuedIds[k] = k - 1

(***************************************************************************)
(* Network to circuit (SpecToCircuit)                                      *)
(***************************************************************************)
\* the sum of the qubit counts of the nodes of `net` before position k
RECURSIVE BlockStart(_, _)
BlockStart(net, k) ==
    IF k = 1 THEN 0 ELSE BlockStart(net, k - 1) + net.nodes[k - 1].qubits

PositionOf(net, nodeId) == CHOOSE k \in 1..Len(net.nodes) : net.nodes[k].id = nodeId

\* the global wire of qubit `qubit` of node `nodeId`
GlobalWireOf(net, nodeId, qubit) == BlockStart(net, PositionOf(net, nodeId)) + qubit

\* the network holds exactly one entanglement, between in-range qubits of
\* two different nodes
OneEntanglementAcrossNodes ==
    /\ Len(network.entanglements) = 1
    /\ network.entanglements[1].node1Id # network.entanglements[1].node2Id
    /\ network.entanglements[1].qubit1 \in
           0..(QubitsOf(network, network.entanglements[1].node1Id) - 1)
    /\ network.entanglements[1].qubit2 \in
           0..(QubitsOf(network, network.entanglements[1].node2Id) - 1)

\* 1/2 on the basis state 0 and 1/2 on the basis state with exactly the two
\* bits wire1 and wire2 set
BellPairOn(wire1, wire2) ==
    [st \in 0..(Pow2(numQubits) - 1) |->
        IF st = 0 \/ st = Pow2(wire1) + Pow2(wire2) THEN Half ELSE RZero]

\* C14: with empty node circuits and one entanglement between two different
\* nodes, running toCircuit() gives 1/2 to all qubits 0 and 1/2 to exactly
\* the two endpoint qubits 1, in either declaration order.
C14_EntanglementGivesBellPair ==
    (last = "run" /\ result.error = "none" /\ OneEntanglementAcrossNodes) =>
        result.probabilities =
            BellPairOn(GlobalWireOf(network, network.entanglements[1].node1Id,
                                    network.entanglements[1].qubit1),
                       GlobalWireOf(network, network.entanglements[1].node2Id,
                                    network.entanglements[1].qubit2))

TotalQubitsOf(net) == BlockStart(net, Len(net.nodes) + 1)

\* the Bell-pair gates of the k-th entanglement sit on the wires of its
\* endpoints' blocks
EntanglementOnItsBlocks(k) ==
    LET entanglement == network.entanglements[k]
        wire1 == GlobalWireOf(network, entanglement.node1Id, entanglement.qubit1)
        wire2 == GlobalWireOf(network, entanglement.node2Id, entanglement.qubit2)
    IN  /\ calls[2 * k - 1].op = "h" /\ calls[2 * k - 1].wires = <<wire1>>
        /\ calls[2 * k].op = "cx" /\ calls[2 * k].wires = <<wire1, wire2>>

\* C15: toCircuit() raises an error exactly when the network has no nodes;
\* otherwise the flat circuit has as many qubits and classical bits as the
\* nodes present have qubits together, and every node's block of wires
\* starts at the sum of the qubit counts of the nodes present that were
\* inserted before it.
C15_ToCircuitLaysNodesOutInOrder ==
    (netCalls # << >> /\ LastNetCall.op = "toCircuit") =>
        /\ LastNetCall.threw <=> network.nodes = << >>
        /\ ~LastNetCall.threw =>
               /\ numQubits = TotalQubitsOf(network)
               /\ numClbits = TotalQubitsOf(network)
               /\ \A k \in 1..Len(network.entanglements) : EntanglementOnItsBlocks(k)

(***************************************************************************)
(* Node circuits in the flat circuit (SpecTranslate)                       *)
(***************************************************************************)
\* the builder calls that placed a gate on a node circuit
NodeGateCalls == SelectSeq(netCalls, LAMBDA call : call.op = "nodeAddGate" /\ ~call.threw)

\* name, wires in call order (control before target) and parameters of a
\* node gate, on the global wires of its node
ShiftedGate(call) ==
    [op |-> call.args[2],
     wires |-> [k \in 1..Len(call.args[3]) |->
                   GlobalWireOf(network, call.args[1], call.args[3][k])],
     options |-> call.args[4]]

FlatGate(call) == [op |-> call.name, wires |-> call.wires, options |-> call.options]

\* C16: for every gate of a node circuit, toCircuit() places exactly one gate
\* of the same name and parameters on the node's wires shifted by the node's
\* offset, control and target in their roles: as many flat gates of a kind as
\* node gates of that kind.
C16_EveryNodeGateTranslatedOnce ==
    (netCalls # << >> /\ LastNetCall.op = "toCircuit" /\ ~LastNetCall.threw) =>
        \A k \in 1..Len(NodeGateCalls) :
            Cardinality({j \in 1..Len(calls) :
                            FlatGate(calls[j]) = ShiftedGate(NodeGateCalls[k])})
                = Cardinality({j \in 1..Len(NodeGateCalls) :
                                  ShiftedGate(NodeGateCalls[j])
                                      = ShiftedGate(NodeGateCalls[k])})

(***************************************************************************)
(* Entanglements join two nodes (SpecNetwork)                              *)
(***************************************************************************)
\* C21: every stored entanglement joins qubits of two different nodes;
\* addEntanglement with node1 equal to node2 is refused and stores nothing.
C21_EntanglementJoinsTwoNodes ==
    /\ \A k \in 1..Len(network.entanglements) :
           network.entanglements[k].node1Id # network.entanglements[k].node2Id
    /\ (netCalls # << >> /\ LastNetCall.op = "addEntanglement"
            /\ LastNetCall.args[1] = LastNetCall.args[3])
       => (LastNetCall.threw /\ network = LastNetCall.before)

(***************************************************************************)
(* Matrix entries of the gate library (SpecGates)                          *)
(***************************************************************************)
\* the value a symbolic matrix entry denotes under the parameters of a gate
\* (angles in units of pi/4; phi, which no builder call of the menu passes,
\* is 0)
ClosedForm(expr, params) ==
    LET half == params.theta \div 2
        real(v) == complex(v, RZero)
    IN  CASE expr = "i" -> complex(RZero, ROne)
          [] expr = "-i" -> complex(RZero, RInt(0 - 1))
          [] expr = "1/sqrt(2)" -> real(R(0, 1, 1))
          [] expr = "-1/sqrt(2)" -> real(R(0, 0 - 1, 1))
          [] expr = "cos(theta/2)" -> real(cosQ(half))
          [] expr = "sin(theta/2)" -> real(sinQ(half))
          [] expr = "-sin(theta/2)" -> real(RNeg(sinQ(half)))
          [] expr = "-i*sin(theta/2)" -> complex(RZero, RNeg(sinQ(half)))
          [] expr = "e^(-i*theta/2)" -> exp(0 - half)
          [] expr = "e^(i*theta/2)" -> exp(half)
          [] expr = "e^(i*lambda)" -> exp(params.lambda)
          [] expr = "e^(i * pi / 4)" -> exp(1)
          [] expr = "e^(-i * pi / 4)" -> exp(0 - 1)
          [] expr = "(1+i)/2" -> complex(R(1, 0, 1), R(1, 0, 1))
          [] expr = "(1-i)/2" -> complex(R(1, 0, 1), R(0 - 1, 0, 1))
          [] expr = "-e^(i*lambda)*sin(theta/2)" ->
                 multiply(exp(params.lambda), real(RNeg(sinQ(half))))
          [] expr = "e^(i*phi)*sin(theta/2)" -> real(sinQ(half))
          [] expr = "e^(i*(phi+lambda))*cos(theta/2)" ->
                 multiply(exp(params.lambda), real(cosQ(half)))

\* the cells of the grid that hold a gate with a matrix
MatrixCells ==
    {pos \in Wires(numQubits) \X (0..(numCols(circuitC) - 1)) :
        /\ IsGate(CellAt(circuitC, pos[1], pos[2]))
        /\ getBasicGates(CellAt(circuitC, pos[1], pos[2]).name) # << >>}

\* every symbolic entry of the gate's matrix is evaluated to its closed form
EvaluatedInClosedForm(gate) ==
    LET matrix == getBasicGates(gate.name)
    IN  \A i \in DOMAIN matrix : \A j \in DOMAIN matrix[i] :
            matrix[i][j].str =>
                getGateMatrix(gate)[i][j] = ClosedForm(matrix[i][j].expr, gate.options)

\* C22: a run() that returns has evaluated every symbolic matrix entry of
\* every gate of the circuit to its closed form under the gate's parameters;
\* no entry is replaced by a default value.
C22_NoDefaultForMatrixEntries ==
    (last = "run" /\ result.error = "none") =>
        \A pos \in MatrixCells :
            EvaluatedInClosedForm(CellAt(circuitC, pos[1], pos[2]))

(***************************************************************************)
(* The column of an append (SpecAppend)                                    *)
(***************************************************************************)
\* F: the rightmost column that held a gate before the last call, -1 when
\* the grid held none
FrontierBefore ==
    IF NonEmptyColumnsBefore = {} THEN 0 - 1
    ELSE CHOOSE col \in NonEmptyColumnsBefore :
             \A other \in NonEmptyColumnsBefore : other <= col

\* C23: an append on valid wires writes its gate at column F + 1: column 0
\* on an empty circuit, and never with a wholly empty column between the
\* frontier and the new gate.
C23_AppendLandsNextToFrontier ==
    IsValidAppend => (~LastCall.threw /\ LastCall.target = FrontierBefore + 1)

(***************************************************************************)
(* Gate records in the grid (SpecAppend)                                   *)
(***************************************************************************)
\* every call so far placed a gate on in-range distinct wires
AllPlacementsValid ==
    \A k \in 1..Len(calls) : calls[k].wires # << >> /\ ~BadWireList(calls[k].wires)

\* the cells (wire, column) that hold the gate object `ref`
CellsOfRecord(ref) ==
    {pos \in InRange \X (0..(numCols(circuitC) - 1)) :
        /\ IsGate(CellAt(circuitC, pos[1], pos[2]))
        /\ CellAt(circuitC, pos[1], pos[2]).ref = ref}

\* the cells the k-th call wrote (the k-th call made the gate object k)
CellsPlacedBy(k) ==
    {<<calls[k].wires[j], calls[k].target>> : j \in 1..Len(calls[k].wires)}

\* C24: after placements on in-range distinct wires, every gate record in
\* the grid occupies exactly the cells it was placed on, in one column; none
\* is left on a part of its wires.
C24_RecordsKeepAllTheirCells ==
    AllPlacementsValid =>
        \A k \in 1..Len(calls) :
            CellsOfRecord(k) = {} \/ CellsOfRecord(k) = CellsPlacedBy(k)

(***************************************************************************)
(* The schedule of one run (SpecSchedule)                                  *)
(***************************************************************************)
\* the gate objects in the grid that are no directive
NonDirectiveRecords ==
    {CellAt(circuitC, pos[1], pos[2]).ref :
        pos \in {cell \in InRange \X (0..(numCols(circuitC) - 1)) :
                    /\ IsGate(CellAt(circuitC, cell[1], cell[2]))
                    /\ CellAt(circuitC, cell[1], cell[2]).name \notin {"measure", "barrier"}}}

\* the state after the first k applications of the schedule, from the state
\* with amplitude 1 at index 0
RECURSIVE StateAfter(_, _)
StateAfter(schedule, k) ==
    IF k = 0 THEN InitialStateVector(numQubits)
    ELSE applyGate(StateAfter(schedule, k - 1), schedule[k].gate, circuitC).stateVector

\* C25: in a run(), every gate record of the grid that is no directive is
\* applied exactly once, the applications go by non-decreasing column, and
\* the state vector returned is the initial state with exactly these
\* applications made: measure and barrier records change nothing.
C25_EveryRecordAppliedOnce ==
    (last = "run" /\ result.error = "none") =>
        LET schedule == appliedGates(circuitC, 0)
        IN  /\ \A ref \in NonDirectiveRecords :
                   Cardinality({k \in 1..Len(schedule) : schedule[k].gate.ref = ref}) = 1
            /\ \A k \in 1..Len(schedule) : schedule[k].gate.ref \in NonDirectiveRecords
            /\ \A j \in 1..Len(schedule), k \in 1..Len(schedule) :
                   j < k => schedule[j].col <= schedule[k].col
            /\ result.stateVector = StateAfter(schedule, Len(schedule))

\* a run of a circuit with a two-wire gate, a directive and a gate in an
\* earlier column than the one placed before it
C25_Witness ==
    /\ last = "run"
    /\ result.error = "none"
    /\ Len(appliedGates(circuitC, 0)) = 2
    /\ MeasureCells(circuitC) # {}
    /\ \E wire \in InRange, col \in 0..(numCols(circuitC) - 1) :
           /\ IsGate(CellAt(circuitC, wire, col))
           /\ CellAt(circuitC, wire, col).name = "cx"
    /\ appliedGates(circuitC, 0)[1].gate.ref > appliedGates(circuitC, 0)[2].gate.ref

(***************************************************************************)
(* Single-wire gates as matrix-vector products (SpecGates)                 *)
(***************************************************************************)
\* st with the bit of `qubit` set to `bit`
WithBit(st, qubit, bit) == st - Bit(st, qubit) * Pow2(qubit) + bit * Pow2(qubit)

\* the product of the 2 x 2 matrix M with the state vector on wire `qubit`:
\* new[s] = M[b][0] * old[s with bit 0] + M[b][1] * old[s with bit 1], b the
\* bit of s at `qubit`
MatrixVectorOnWire(stateVector, matrix, qubit) ==
    [st \in DOMAIN stateVector |->
        add(multiply(matrix[Bit(st, qubit) + 1][1], stateVector[WithBit(st, qubit, 0)]),
            multiply(matrix[Bit(st, qubit) + 1][2], stateVector[WithBit(st, qubit, 1)]))]

\* the state after the first k gates of a schedule of single-wire gates,
\* each applied as a matrix-vector product
RECURSIVE ProductAfter(_, _)
ProductAfter(schedule, k) ==
    IF k = 0 THEN InitialStateVector(numQubits)
    ELSE MatrixVectorOnWire(ProductAfter(schedule, k - 1),
                            getGateMatrix(schedule[k].gate),
                            findGateWires(circuitC, schedule[k].gate)[1])

OnlySingleWireGates(schedule) ==
    \A k \in 1..Len(schedule) : Len(findGateWires(circuitC, schedule[k].gate)) = 1

\* C26: run() of a circuit of single-wire gates returns the state vector
\* that the matrix-vector products of its gates give, also for matrices that
\* are not symmetric (y, ry).
C26_SingleWireGateIsMatrixProduct ==
    (last = "run" /\ result.error = "none"
        /\ OnlySingleWireGates(appliedGates(circuitC, 0)))
    => result.stateVector
           = ProductAfter(appliedGates(circuitC, 0), Len(appliedGates(circuitC, 0)))

(***************************************************************************)
(* Three-wire gates other than ccx (SpecGates)                             *)
(***************************************************************************)
\* the grid holds a gate named `gateName` on three wires
HoldsOnThreeWires(gateName) ==
    \E wire \in InRange, col \in 0..(numCols(circuitC) - 1) :
        /\ IsGate(CellAt(circuitC, wire, col))
        /\ CellAt(circuitC, wire, col).name = gateName
        /\ Len(findGateWires(circuitC, CellAt(circuitC, wire, col))) = 3

\* C27: run() of a circuit that holds a three-wire gate other than ccx
\* (cswap) fails with an error.
C27_CswapIsRefusedByRun ==
    (last = "run" /\ HoldsOnThreeWires("cswap")) => result.error # "none"

(***************************************************************************)
(* The preamble and the replayed node gates (SpecReplay)                   *)
(***************************************************************************)
\* for every builder call that replays a cell of a node circuit, in the
\* order toCircuit makes them, the position of the node and the column of
\* the cell in the node's circuit: from cell (col, wire) of the k-th node on
RECURSIVE ReplaySource(_, _, _, _)
ReplaySource(net, k, col, wire) ==
    IF k > Len(net.nodes) THEN << >>
    ELSE IF col >= Len(net.nodes[k].gates[0]) THEN ReplaySource(net, k + 1, 0, 0)
    ELSE IF wire >= net.nodes[k].qubits THEN ReplaySource(net, k, col + 1, 0)
    ELSE LET cell == net.nodes[k].gates[wire][col + 1]
         IN  (IF IsGate(cell) /\ addGateToGlobalCircuit(cell.name, <<0, 1, 2>>,
                                                        cell.options) # << >>
              THEN <<[node |-> k, col |-> col]>>
              ELSE << >>)
             \o ReplaySource(net, k, col, wire + 1)

ToCircuitReturned ==
    /\ last = "toCircuit"
    /\ netCalls # << >>
    /\ LastNetCall.op = "toCircuit"
    /\ ~LastNetCall.threw

\* C28: in the circuit toCircuit() returns, every gate replayed from a node
\* circuit lies in a column greater than the column of every h and cx of the
\* entanglement preamble, and two gates of one node that lie in different
\* columns of the node's circuit keep their order.
C28_NodeGatesFollowThePreamble ==
    ToCircuitReturned =>
        LET preamble == 2 * Len(network.entanglements)
            source == ReplaySource(network, 1, 0, 0)
        IN  /\ Len(calls) = preamble + Len(source)
            /\ \A j \in 1..preamble, k \in (preamble + 1)..Len(calls) :
                   calls[j].target < calls[k].target
            /\ \A j \in 1..Len(source), k \in 1..Len(source) :
                   (source[j].node = source[k].node /\ source[j].col < source[k].col)
                   => calls[preamble + j].target < calls[preamble + k].target

\* a flat circuit with the preamble of two entanglements and two gates of
\* one node from different columns of its circuit
C28_Witness ==
    /\ ToCircuitReturned
    /\ Len(network.entanglements) = 2
    /\ \E j, k \in 1..Len(ReplaySource(network, 1, 0, 0)) :
           /\ ReplaySource(network, 1, 0, 0)[j].node = ReplaySource(network, 1, 0, 0)[k].node
           /\ ReplaySource(network, 1, 0, 0)[j].col < ReplaySource(network, 1, 0, 0)[k].col

(***************************************************************************)
(* The unitary matrix and the state vector of one run (SpecUnitary)        *)
(***************************************************************************)
\* C29: column 0 of the unitaryMatrix a run() returns equals the stateVector
\* of the same run, entry by entry.
C29_UnitaryColumnIsStateVector ==
    \A k \in 1..Len(held) :
        \A i \in DOMAIN held[k].stateVector :
            held[k].unitaryMatrix[i][0] = held[k].stateVector[i]

(***************************************************************************)
(* The restored circuit and its origin (SpecRestore)                       *)
(***************************************************************************)
\* C30: with d = QuantumCircuit.fromJSON(c.toJSON()), a placement on c leaves
\* the grid of d as it was, and a placement on d leaves the grid of c as it
\* was.
C30_RestoredCircuitIsIndependent ==
    [][(snapshot = "direct" /\ snapshot' = "direct") =>
          /\ (last' = "place" /\ calls' # calls) => circuitD' = circuitD
          /\ (last' = "placeRestored") => gates' = gates]_vars

====
